---- MODULE Spec2Model ----
\* Cluster synchronisation of sgykfjsm/msk: the paginated sync orchestrator
\* (clusterService.FetchAndStoreClusters), the MySQL/TiDB backed store
\* (DBClusterStore.StoreClusters, DBClusterStore.MarkStaleClustersAsDeleted)
\* and the SQL statements they run against the clusters table; the earlier
\* FetchAndStoreClusters that stores the nodes of each page instead of marking
\* stale clusters. Then the route reconciler, vpcrtb.UpdateRoutes, and the
\* functions a command calls around them: the project store, the two API
\* fetchers, the accept-peering command, validateFetchClustersArgs; the
\* cluster sync under a context that ends; the project sync
\* (ProjectService.FetchAndStoreProjects); and the update-routes command, run
\* once and again.
EXTENDS Integers, Sequences, FiniteSets, TLC

\* ---------------------------------------------------------------- bounds
\* Time is counted in ticks; a DATETIME column keeps whole seconds only.
MaxTime == 7
TicksPerSecond == 3
MaxTotal == 2
MaxPageSize == 2
\* the page counter of the model stops here (the code's counter is unbounded)
MaxPage == MaxTotal
\* the largest node count one StoreClusterNodes call returns
MaxNodeNum == 2
\* the number of route tables at EC2
MaxRouteTables == 2

Projects == {"p1", "p2"}
ClusterIDs == {"c1", "c2"}
Names == {"a", "b"}
\* values of the create_timestamp JSON string: two decimal numbers and one
\* string strconv.ParseInt rejects
Timestamps == {"1", "2", "x"}

Null == -1

\* ---------------------------------------------------------------- values
\* clusters.Cluster, the fields StoreClusters reads (the other descriptive
\* fields are written exactly like Name)
Cluster(id, pid, name, cts) ==
    [ID |-> id, ProjectID |-> pid, Name |-> name, CreateTimestamp |-> cts]

\* a row of the clusters table; exists = FALSE is "no row with this id"
NoRow ==
    [exists |-> FALSE, project_id |-> "", name |-> "", create_timestamp |-> 0,
     is_deleted |-> FALSE, created_at |-> Null, updated_at |-> Null,
     deleted_at |-> Null]

EmptyTable == [id \in ClusterIDs |-> NoRow]

\* a row an earlier sync left behind: stored in second 0 and, when
\* deleted, marked in second 0
StoredRow(pid, name, deleted) ==
    [exists |-> TRUE, project_id |-> pid, name |-> name, create_timestamp |-> 1,
     is_deleted |-> deleted, created_at |-> 0, updated_at |-> 0,
     deleted_at |-> IF deleted THEN 0 ELSE Null]

\* the tables a run may find
InitTables ==
    {[c1 |-> r1, c2 |-> r2] :
        r1 \in {NoRow, StoredRow("p1", "a", FALSE), StoredRow("p1", "a", TRUE),
                StoredRow("p2", "a", FALSE)},
        r2 \in {NoRow, StoredRow("p1", "a", FALSE)}}

\* error values: what the message carries
Nil == [kind |-> "nil", item |-> "", cause |-> "", rollbackErr |-> FALSE]
Err(kind, item, cause, rb) ==
    [kind |-> kind, item |-> item, cause |-> cause, rollbackErr |-> rb]

\* strconv.ParseInt(s, 10, 64): the value, and whether it parsed
ParseIntOK(s) == s \in {"1", "2"}
ParseInt(s) == CASE s = "1" -> 1 [] s = "2" -> 2 [] OTHER -> 0

\* CURRENT_TIMESTAMP stored in a DATETIME column: the second of tick t
CurrentTimestamp(t) == (t \div TicksPerSecond) * TicksPerSecond

\* ---------------------------------------------------------------- SQL
\* faulty variant: updated_at refreshed by every statement that names the row
OnUpdateAlways(changed, old, ts) == ts

\* ON UPDATE CURRENT_TIMESTAMP of updated_at: refreshed only when the
\* statement changes the value of some other column of the row
OnUpdateCurrentTimestamp(changed, old, ts) == IF changed THEN ts ELSE old

\* INSERT ... ON DUPLICATE KEY UPDATE on the row whose PRIMARY KEY is v.ID
UpsertCluster(row, v, ts) ==
    IF ~row.exists
    THEN [exists |-> TRUE, project_id |-> v.ProjectID, name |-> v.Name,
          create_timestamp |-> v.CreateTimestamp, is_deleted |-> FALSE,
          created_at |-> ts, updated_at |-> ts, deleted_at |-> Null]
    ELSE LET changed == \/ row.project_id # v.ProjectID
                        \/ row.name # v.Name
                        \/ row.create_timestamp # v.CreateTimestamp
         IN [row EXCEPT !.project_id = v.ProjectID,
                        !.name = v.Name,
                        !.create_timestamp = v.CreateTimestamp,
                        !.updated_at = OnUpdateCurrentTimestamp(changed, @, ts)]

\* faulty variant: updated_at <= synced_at
StaleMatchAtOrBefore(row, projectID, syncedAt) ==
    /\ row.exists
    /\ row.project_id = projectID
    /\ row.updated_at <= syncedAt
    /\ row.is_deleted = FALSE

\* faulty variant: the is_deleted = FALSE condition left out
StaleMatchIgnoringDeleted(row, projectID, syncedAt) ==
    /\ row.exists
    /\ row.project_id = projectID
    /\ row.updated_at < syncedAt

\* faulty variant: the project_id condition left out
StaleMatchAnyProject(row, projectID, syncedAt) ==
    /\ row.exists
    /\ row.updated_at < syncedAt
    /\ row.is_deleted = FALSE

\* WHERE clause of MarkStaleClustersAsDeleted
StaleMatch(row, projectID, syncedAt) ==
    /\ row.exists
    /\ row.project_id = projectID
    /\ row.updated_at < syncedAt
    /\ row.is_deleted = FALSE

\* faulty variant: DELETE FROM clusters WHERE ...
MarkStaleDelete(tbl, projectID, syncedAt, ts) ==
    [id \in ClusterIDs |->
        IF StaleMatch(tbl[id], projectID, syncedAt) THEN NoRow ELSE tbl[id]]

\* UPDATE clusters SET is_deleted = TRUE, deleted_at = CURRENT_TIMESTAMP WHERE ...
\* (is_deleted changes, so ON UPDATE CURRENT_TIMESTAMP refreshes updated_at)
MarkStaleUpdate(tbl, projectID, syncedAt, ts) ==
    [id \in ClusterIDs |->
        IF StaleMatch(tbl[id], projectID, syncedAt)
        THEN [tbl[id] EXCEPT !.is_deleted = TRUE, !.deleted_at = ts,
                             !.updated_at = OnUpdateCurrentTimestamp(TRUE, @, ts)]
        ELSE tbl[id]]

RowsAffected(tbl, projectID, syncedAt) ==
    Cardinality({id \in ClusterIDs : StaleMatch(tbl[id], projectID, syncedAt)})

\* ---------------------------------------------------------------- faults
\* what the database does to one call: nothing, or an error at Begin, at
\* the i-th UpsertCluster, at the UPDATE, at RowsAffected or at Commit;
\* rb: the Rollback that follows the error fails too
NoFault == [at |-> "none", i |-> 0, rb |-> FALSE]
Fault(at, i, rb) == [at |-> at, i |-> i, rb |-> rb]

StoreFaults(cs) ==
    {NoFault, Fault("begin", 0, FALSE), Fault("commit", 0, FALSE)}
        \cup {Fault("upsert", i, rb) : i \in 1..Len(cs), rb \in BOOLEAN}

MarkFaults ==
    {NoFault, Fault("begin", 0, FALSE), Fault("commit", 0, FALSE)}
        \cup {Fault(at, 0, rb) : at \in {"exec", "rows"}, rb \in BOOLEAN}

\* ---------------------------------------------------------------- store
\* db.UpsertClusterParams built from a cluster whose create_timestamp parsed
UpsertClusterParams(c) ==
    [ID |-> c.ID, ProjectID |-> c.ProjectID, Name |-> c.Name,
     CreateTimestamp |-> ParseInt(c.CreateTimestamp)]

\* return on a create_timestamp that does not parse: the error names the
\* cluster; tx is neither committed nor rolled back
ParseFailure(tbl, c) ==
    [err |-> Err("parse", c.ID, "syntax", FALSE), table |-> tbl, tx |-> "open"]

\* faulty variant: the rollback undoes the earlier transactions too
UpsertFailureWipes(tbl, c, rb) ==
    [err |-> Err("upsert", c.ID, "db", rb), table |-> EmptyTable,
     tx |-> IF rb THEN "aborted" ELSE "rolledback"]

\* return on a failed UpsertCluster: tx.Rollback(), the rollback error joined
UpsertFailure(tbl, c, rb) ==
    [err |-> Err("upsert", c.ID, "db", rb), table |-> tbl,
     tx |-> IF rb THEN "aborted" ELSE "rolledback"]

\* tx.Commit() after the loop
CommitStore(tbl, work, fault) ==
    IF fault.at = "commit"
    THEN [err |-> Err("commit", "", "db", FALSE), table |-> tbl, tx |-> "aborted"]
    ELSE [err |-> Nil, table |-> work, tx |-> "committed"]

\* the loop over the page inside the transaction: work is the table as the
\* transaction sees it, tbl the committed table
RECURSIVE UpsertLoop(_, _, _, _, _, _)
UpsertLoop(tbl, work, cs, i, fault, ts) ==
    IF i > Len(cs) THEN CommitStore(tbl, work, fault)
    ELSE IF ~ParseIntOK(cs[i].CreateTimestamp) THEN ParseFailure(tbl, cs[i])
    ELSE IF fault.at = "upsert" /\ fault.i = i THEN UpsertFailure(tbl, cs[i], fault.rb)
    ELSE UpsertLoop(tbl,
                    [work EXCEPT ![cs[i].ID] =
                        UpsertCluster(@, UpsertClusterParams(cs[i]), ts)],
                    cs, i + 1, fault, ts)

\* DBClusterStore.StoreClusters: [err, table, tx]
StoreClusters(tbl, cs, fault, t) ==
    IF Len(cs) = 0 THEN [err |-> Nil, table |-> tbl, tx |-> "none"]
    ELSE IF fault.at = "begin"
    THEN [err |-> Err("begin", "", "db", FALSE), table |-> tbl, tx |-> "none"]
    ELSE UpsertLoop(tbl, tbl, cs, 1, fault, CurrentTimestamp(t))

\* the deferred function of MarkStaleClustersAsDeleted: on an error it rolls
\* back, and a failing rollback replaces the error
DeferredRollback(err, rbFails, rbCause) ==
    IF rbFails THEN Err("rollback", "", rbCause, FALSE) ELSE err

\* DBClusterStore.MarkStaleClustersAsDeleted: [rowsAffected, err, table, tx]
MarkStaleClustersAsDeleted(tbl, projectID, syncedAt, fault, t) ==
    CASE fault.at = "begin" ->
            [rowsAffected |-> 0, err |-> Err("begin", "", "db", FALSE),
             table |-> tbl, tx |-> "none"]
      [] fault.at \in {"exec", "rows"} ->
            [rowsAffected |-> 0,
             err |-> DeferredRollback(Err(fault.at, projectID, "db", FALSE),
                                      fault.rb, "db"),
             table |-> tbl,
             tx |-> IF fault.rb THEN "aborted" ELSE "rolledback"]
      [] fault.at = "commit" ->
            \* Commit ended the transaction: the deferred Rollback returns
            \* sql.ErrTxDone
            [rowsAffected |-> 0,
             err |-> DeferredRollback(Err("commit", "", "db", FALSE), TRUE, "txdone"),
             table |-> tbl, tx |-> "aborted"]
      [] OTHER ->
            [rowsAffected |-> RowsAffected(tbl, projectID, syncedAt),
             err |-> Nil,
             table |-> MarkStaleUpdate(tbl, projectID, syncedAt, CurrentTimestamp(t)),
             tx |-> "committed"]

\* ---------------------------------------------------------------- project store
\* a Go int of 64 bits, as the words int32() tells apart: the bits above
\* bit 31 and the 32 bits below them
Count(hi, lo) == [hi |-> hi, lo |-> lo]
\* int32(n): the low 32 bits
Int32(n) == n.lo

\* project.Project, the fields StoreProjects reads (OrgID and AwsCmekEnabled
\* are written exactly like Name, UserCount like ClusterCount)
Project(id, name, count, cts) ==
    [ID |-> id, Name |-> name, ClusterCount |-> count, CreateTimestamp |-> cts]

\* a row of the projects table; exists = FALSE is "no row with this id"
NoProjectRow ==
    [exists |-> FALSE, name |-> "", cluster_count |-> 0, create_timestamp |-> 0,
     fetched_at |-> Null]
EmptyProjects == [id \in Projects |-> NoProjectRow]

\* db.UpsertProjectParams as StoreProjects builds it: a create_timestamp
\* that does not parse becomes 0
UpsertProjectParams(p) ==
    [ID |-> p.ID, Name |-> p.Name, ClusterCount |-> Int32(p.ClusterCount),
     CreateTimestamp |-> IF ParseIntOK(p.CreateTimestamp)
                         THEN ParseInt(p.CreateTimestamp) ELSE 0]

\* INSERT ... ON DUPLICATE KEY UPDATE on the projects row whose id is p.ID
UpsertProject(row, p, ts) ==
    IF ~row.exists
    THEN [exists |-> TRUE, name |-> p.Name, cluster_count |-> p.ClusterCount,
          create_timestamp |-> p.CreateTimestamp, fetched_at |-> ts]
    ELSE LET changed == \/ row.name # p.Name
                        \/ row.cluster_count # p.ClusterCount
                        \/ row.create_timestamp # p.CreateTimestamp
         IN [row EXCEPT !.name = p.Name,
                        !.cluster_count = p.ClusterCount,
                        !.create_timestamp = p.CreateTimestamp,
                        !.fetched_at = OnUpdateCurrentTimestamp(changed, @, ts)]

\* the loop of StoreProjects inside the transaction, then tx.Commit()
RECURSIVE UpsertProjectLoop(_, _, _, _, _, _)
UpsertProjectLoop(tbl, work, ps, i, fault, ts) ==
    IF i > Len(ps)
    THEN IF fault.at = "commit"
         THEN [err |-> Err("commit", "", "db", FALSE), table |-> tbl, tx |-> "aborted"]
         ELSE [err |-> Nil, table |-> work, tx |-> "committed"]
    ELSE IF fault.at = "upsert" /\ fault.i = i
    THEN [err |-> Err("upsert", ps[i].ID, "db", fault.rb), table |-> tbl,
          tx |-> IF fault.rb THEN "aborted" ELSE "rolledback"]
    ELSE UpsertProjectLoop(tbl,
                           [work EXCEPT ![ps[i].ID] =
                               UpsertProject(@, UpsertProjectParams(ps[i]), ts)],
                           ps, i + 1, fault, ts)

\* faulty variant: the transaction is begun before the batch is looked at
StoreProjectsBeginFirst(tbl, ps, fault, t) ==
    IF fault.at = "begin"
    THEN [err |-> Err("begin", "", "db", FALSE), table |-> tbl, tx |-> "none"]
    ELSE UpsertProjectLoop(tbl, tbl, ps, 1, fault, CurrentTimestamp(t))

\* DBProjectStore.StoreProjects: [err, table, tx]
StoreProjects(tbl, ps, fault, t) ==
    IF Len(ps) = 0 THEN [err |-> Nil, table |-> tbl, tx |-> "none"]
    ELSE IF fault.at = "begin"
    THEN [err |-> Err("begin", "", "db", FALSE), table |-> tbl, tx |-> "none"]
    ELSE UpsertProjectLoop(tbl, tbl, ps, 1, fault, CurrentTimestamp(t))

NoPjLast == [done |-> FALSE, fault |-> NoFault, before |-> EmptyProjects,
             after |-> EmptyProjects, at |-> Null, err |-> Nil, tx |-> "none"]

\* ---------------------------------------------------------------- state
VARIABLES
    table,      \* the committed rows of the clusters table, by id
    now,        \* the clock, in ticks
    tx,         \* how the last transaction of the store ended
    arg,        \* the direct call of the store under test
    last, prev, \* what its last application returned, and the one before
    fetcher,    \* the ClusterFetcher plugged in: "any" answers, or "honest"
    remote,     \* what the honest remote holds: project and name of each id
    pc,         \* where FetchAndStoreClusters stands
    projectIDs, pageSize,                       \* its arguments
    idx,                                        \* position of the range loop
    syncStartTime, processedClusterNum, page,   \* locals of one project
    clusters, total,                            \* the page last fetched
    totalProcessedProjectNum, totalProcessedClusterNum, totalDeletedClusterCount,
    ret,        \* what the run returned
    calls,      \* the calls issued for the current project, in order
    touched,    \* ids of the pages stored for the current project
    table0,     \* the table when the current project began
    variant,    \* which FetchAndStoreClusters runs: "marker" or "nodes"
    totalProcessedNodeNum,  \* the third sum of the "nodes" one
    sums        \* over the run: items fetched, counts the store returned

\* vpcrtb.UpdateRoutes
VARIABLES
    routeTables,    \* the route tables at EC2, by id: their VPC and routes
    routeTables0,   \* the same when the run began
    vpcID, cidr, peerID, dryRun,    \* the arguments
    rtOutput,       \* what DescribeRouteTables returned
    rtIdx,          \* position of the loop over rtOutput.RouteTables
    w,              \* the lines written to w
    ec2Calls,       \* the EC2 calls issued, in order
    rtRet,          \* what UpdateRoutes returned
    rtPrev,         \* what the run before this one returned, if there was one
    rtpc            \* where the command, then UpdateRoutes, stands

\* the functions of the program called alone, each with its own state
VARIABLES
    projectRows,    \* the committed rows of the projects table, by id
    pjArg,          \* the batch of the last StoreProjects call
    pjLast, pjPrev, \* what that call returned, and the one before
    fetchArg,       \* the endpoint, page and pageSize of a fetch
    response,       \* what Client.Do answers to it
    fetched,        \* what the fetch returned, and the query it sent
    peerings,       \* the peering connections at EC2, by id: their state code
    flags,          \* --peering-id, --check-only and --dry-run of accept-peering
    acceptRet,      \* what the command returned
    args,           \* the fetchClustersArgs behind the pointer v
    vRet            \* what validateFetchClustersArgs returned

\* the context the command passes down
VARIABLES
    ctx,            \* "background": never done; "live"; "done": cancelled,
                    \* or past its deadline
    lateCommits     \* the transactions committed although ctx was done

\* project.ProjectService.FetchAndStoreProjects
VARIABLES
    pjRemote,       \* the projects the remote holds, in the order it lists them
    startPage,      \* the page the caller gave
    pjPage, pjPageSize,     \* the arguments page and pageSize
    processedProjectsNum,   \* the local of the same name
    projects, totalProjectNum,  \* what the last FetchProjects returned
    pjFetches,      \* the pages fetched, in order
    pjRet,          \* what FetchAndStoreProjects returned
    pjpc            \* where it stands

pjVars == <<pjRemote, startPage, pjPage, pjPageSize, processedProjectsNum,
            projects, totalProjectNum, pjFetches, pjRet, pjpc>>
rtVars == <<routeTables, routeTables0, vpcID, cidr, peerID, dryRun, rtOutput,
            rtIdx, w, ec2Calls, rtRet, rtPrev, rtpc>>
unitVars == <<projectRows, pjArg, pjLast, pjPrev, fetchArg, response, fetched,
              peerings, flags, acceptRet, args, vRet, pjVars>>
extVars == <<unitVars, ctx, lateCommits>>
dbVars == <<table, now, tx, arg, last, prev>>

runVars == <<fetcher, remote, pc, projectIDs, pageSize, idx, syncStartTime,
             processedClusterNum, page, clusters, total,
             totalProcessedProjectNum, totalProcessedClusterNum,
             totalDeletedClusterCount, ret, calls, touched, table0,
             variant, totalProcessedNodeNum, sums>>
vars == <<table, now, tx, arg, last, prev, fetcher, remote, pc, projectIDs, pageSize, idx,
          syncStartTime, processedClusterNum, page, clusters, total,
          totalProcessedProjectNum, totalProcessedClusterNum,
          totalDeletedClusterCount, ret, calls, touched, table0,
          variant, totalProcessedNodeNum, sums, rtVars, extVars>>

\* ---------------------------------------------------------------- route tables
\* a nil *string of the EC2 types, and aws.ToString
NilString == "<nil>"
AwsToString(ptr) == IF ptr = NilString THEN "" ELSE ptr

RouteTableIDs == 1..MaxRouteTables
VpcIDs == {"vpc-1", "vpc-2"}
CIDRs == {"10.0.0.0/16", "10.1.0.0/16"}
PeerIDs == {"pcx-A", "pcx-B"}

\* ec2types.Route, the two fields UpdateRoutes reads
Route(dest, peer) == [DestinationCidrBlock |-> dest, VpcPeeringConnectionId |-> peer]
\* a route with neither an IPv4 destination nor a peering connection
GatewayRoute == Route(NilString, NilString)

\* the routes a table may hold: at most one per destination
PeeringRoutes == {Route(d, p) : d \in CIDRs, p \in PeerIDs \cup {NilString}}
RouteLists ==
    {<<>>, <<GatewayRoute>>}
        \cup {<<r>> : r \in PeeringRoutes}
        \cup {<<GatewayRoute, r>> : r \in PeeringRoutes}
        \cup {<<r1, r2>> \in PeeringRoutes \X PeeringRoutes :
                /\ r1.DestinationCidrBlock # r2.DestinationCidrBlock
                /\ r2.VpcPeeringConnectionId = "pcx-A"}

\* the tags of a table: the first table carries a Name tag
Tag(k, v) == [Key |-> k, Value |-> v]
TagsOf(id) == IF id = 1 THEN <<Tag("env", "prod"), Tag("Name", "main")>> ELSE <<>>

\* strings.ToLower on the tag keys in use
ToLower(str) == IF str = "Name" THEN "name" ELSE str

\* util.GetNameFromTags: the value of the first tag whose key is "name" in
\* any case, or ""
RECURSIVE GetNameFromTags(_, _)
GetNameFromTags(tags, i) ==
    IF i > Len(tags) THEN ""
    ELSE IF ToLower(AwsToString(tags[i].Key)) = "name" THEN AwsToString(tags[i].Value)
    ELSE GetNameFromTags(tags, i + 1)

\* the route tables EC2 may hold: those of the VPC with any routes, those of
\* another VPC
RemoteRouteTables ==
    [RouteTableIDs -> {[vpc |-> "vpc-1", routes |-> rs] : rs \in RouteLists}
                        \cup {[vpc |-> "vpc-2",
                                routes |-> <<Route("10.0.0.0/16", "pcx-A")>>]}]

RtNil == [stage |-> "nil", cidr |-> "", vpc |-> "", name |-> "", table |-> 0,
          cause |-> ""]
NoRtRet == [returned |-> FALSE, err |-> RtNil]
NoOutput == [described |-> FALSE, RouteTables |-> <<>>]

\* no UpdateRoutes in this process
RoutesIdle ==
    /\ routeTables = [id \in RouteTableIDs |-> [vpc |-> "vpc-1", routes |-> <<>>]]
    /\ routeTables0 = routeTables
    /\ vpcID = "vpc-1"
    /\ cidr = "10.0.0.0/16"
    /\ peerID = "pcx-A"
    /\ dryRun = FALSE
    /\ rtOutput = NoOutput
    /\ rtIdx = 1
    /\ w = <<>>
    /\ ec2Calls = <<>>
    /\ rtRet = NoRtRet
    /\ rtPrev = NoRtRet
    /\ rtpc = "off"

\* ---------------------------------------------------------------- API fetchers
\* the body of an answer: the JSON of a listing ("list"), the JSON of an API
\* error ("error"), bytes that are not JSON ("garbage"), nothing ("empty")
Body(kind, items, n, message, code) ==
    [kind |-> kind, items |-> items, total |-> n, message |-> message,
     code |-> code]
Bodies ==
    {Body("list", SubSeq(<<"c1", "c2">>, 1, k), n, "", 0) :
        k \in 0..2, n \in 0..MaxTotal}
        \cup {Body("error", <<>>, 0, "bad request", 400),
              Body("garbage", <<>>, 0, "", 0), Body("empty", <<>>, 0, "", 0)}

StatusOK == 200
StatusUnauthorized == 401
StatusTooManyRequests == 429

\* Client.Do returned an error
DoFailed == [err |-> TRUE, StatusCode |-> 0, Body |-> Body("empty", <<>>, 0, "", 0)]

\* json.NewDecoder(Body).Decode into ListClustersResponse (ListProjectResponse)
\* or into ListClusterResponseError (ListProjectResponseError): any JSON
\* object decodes into either, the fields it lacks stay zero
Decode(body) ==
    [ok |-> body.kind \in {"list", "error"}, Items |-> body.items,
     Total |-> body.total, Message |-> body.message, Code |-> body.code]

\* url.JoinPath and http.NewRequest accept the endpoint
EndpointOK(e) == e # ":bad"

\* what a fetch returns, with the query it sent (page 0: no request sent)
FetchErr(kind, status, code) == [kind |-> kind, status |-> status, code |-> code]
FetchReturn(items, n, err, q) ==
    [Items |-> items, Total |-> n, err |-> err, page |-> q.page,
     page_size |-> q.page_size]

\* faulty variant: on a status without a case of its own the decoded listing
\* is returned next to the error
RespondKeepingItems(resp, q) ==
    CASE resp.StatusCode = StatusOK /\ ~Decode(resp.Body).ok ->
            FetchReturn(<<>>, 0, FetchErr("decode", StatusOK, 0), q)
      [] resp.StatusCode = StatusOK ->
            FetchReturn(Decode(resp.Body).Items, Decode(resp.Body).Total,
                        FetchErr("nil", 0, 0), q)
      [] resp.StatusCode = StatusUnauthorized ->
            FetchReturn(<<>>, 0, FetchErr("unauthorized", resp.StatusCode, 0), q)
      [] resp.StatusCode = StatusTooManyRequests ->
            FetchReturn(<<>>, 0, FetchErr("rate limit", resp.StatusCode, 0), q)
      [] OTHER ->
            FetchReturn(Decode(resp.Body).Items, Decode(resp.Body).Total,
                        FetchErr("api", resp.StatusCode, Decode(resp.Body).Code), q)

\* the part of FetchClusters and of FetchProjects after Client.Do succeeded
Respond(resp, q) ==
    CASE resp.StatusCode = StatusOK /\ ~Decode(resp.Body).ok ->
            FetchReturn(<<>>, 0, FetchErr("decode", StatusOK, 0), q)
      [] resp.StatusCode = StatusOK ->
            FetchReturn(Decode(resp.Body).Items, Decode(resp.Body).Total,
                        FetchErr("nil", 0, 0), q)
      [] resp.StatusCode = StatusUnauthorized ->
            FetchReturn(<<>>, 0, FetchErr("unauthorized", resp.StatusCode, 0), q)
      [] resp.StatusCode = StatusTooManyRequests ->
            FetchReturn(<<>>, 0, FetchErr("rate limit", resp.StatusCode, 0), q)
      [] ~Decode(resp.Body).ok ->
            FetchReturn(<<>>, 0, FetchErr("decode error", resp.StatusCode, 0), q)
      [] OTHER ->
            FetchReturn(<<>>, 0,
                        FetchErr("api", resp.StatusCode, Decode(resp.Body).Code), q)

\* the query: page 1 for a page <= 0, page_size 20 for a pageSize <= 0
Query(p, ps) ==
    [page |-> IF p <= 0 THEN 1 ELSE p, page_size |-> IF ps <= 0 THEN 20 ELSE ps]

\* APIClusterFetcher.FetchClusters
FetchClusters(endpoint, p, ps, resp) ==
    IF ~EndpointOK(endpoint)
    THEN FetchReturn(<<>>, 0, FetchErr("url", 0, 0), [page |-> 0, page_size |-> 0])
    ELSE IF resp.err
    THEN FetchReturn(<<>>, 0, FetchErr("do", 0, 0), Query(p, ps))
    ELSE Respond(resp, Query(p, ps))

\* APIProjectFetcher.FetchProjects
FetchProjects(endpoint, p, ps, resp) ==
    IF ~EndpointOK(endpoint)
    THEN FetchReturn(<<>>, 0, FetchErr("request", 0, 0), [page |-> 0, page_size |-> 0])
    ELSE IF resp.err
    THEN FetchReturn(<<>>, 0, FetchErr("do", 0, 0), Query(p, ps))
    ELSE Respond(resp, Query(p, ps))

\* ---------------------------------------------------------------- peering
\* the status codes of a peering connection at EC2; "none": no connection
\* with this id
PeeringStates == {"pending-acceptance", "active", "provisioning", "rejected",
                  "deleted"}

\* the values of --peering-id: two connection ids, none, a route table's id
PeeringIDs == PeerIDs \cup {"", "rtb-1"}
\* strings.HasPrefix(peeringID, "pcx-") on them
HasPcxPrefix(id) == id \in PeerIDs

\* the error returned, stage "nil" being nil
AcceptFailed(stage, id) == [stage |-> stage, peering |-> id]

NoAcceptRet == [returned |-> FALSE, err |-> AcceptFailed("nil", ""), state |-> "",
                before |-> [id \in PeerIDs |-> "none"]]

\* ---------------------------------------------------------------- arguments
\* the default of --api-endpoint-base
DefaultAPIEndpointBase == "https://api.tidbcloud.com/api/v1beta"

\* faulty variant: a page size of 100 is refused
PageSizeRefusedFrom100(n) == n <= 0 \/ n >= 100

\* v.PageSize <= 0 || v.PageSize > 100
PageSizeRefused(n) == n <= 0 \/ n > 100

\* validateFetchClustersArgs(v) on the struct a: [err, v], err "" being nil
validateFetchClustersArgs(a) ==
    LET b == IF a.APIEndpointBase = ""
             THEN [a EXCEPT !.APIEndpointBase = DefaultAPIEndpointBase] ELSE a
    IN CASE a.APIKey = "" -> [err |-> "api key", v |-> a]
         [] a.APISecret = "" -> [err |-> "api secret", v |-> a]
         [] PageSizeRefused(b.PageSize) -> [err |-> "page-size", v |-> b]
         [] b.All /\ Len(b.ProjectIDs) > 0 -> [err |-> "all with project-id", v |-> b]
         [] ~b.All /\ Len(b.ProjectIDs) = 0 -> [err |-> "project-id", v |-> b]
         [] b.DBPort <= 0 \/ b.DBPort > 65535 -> [err |-> "db-port", v |-> b]
         [] b.HTTPTimeout <= 0 -> [err |-> "http-timeout", v |-> b]
         [] b.JobTimeout <= 0 -> [err |-> "job-timeout", v |-> b]
         [] OTHER -> [err |-> "", v |-> b]

NoArgs ==
    [APIKey |-> "", APISecret |-> "", APIEndpointBase |-> "", ProjectIDs |-> <<>>,
     PageSize |-> 0, All |-> FALSE, DBPort |-> 0, HTTPTimeout |-> 0,
     JobTimeout |-> 0]
NotValidated == [returned |-> FALSE, err |-> "", given |-> NoArgs]

\* ---------------------------------------------------------------- idle
\* the functions called alone are not called in this process, but for the
\* part named; the context is never done unless part is "ctx"
ExtIdleBut(part) ==
    /\ IF part = "stores" THEN TRUE
       ELSE /\ projectRows = EmptyProjects
            /\ pjArg = <<>>
            /\ pjLast = NoPjLast
            /\ pjPrev = NoPjLast
    /\ IF part = "api" THEN TRUE
       ELSE /\ fetchArg = [endpoint |-> "https://api", page |-> 1, pageSize |-> 1]
            /\ response = DoFailed
            /\ fetched = [done |-> FALSE, by |-> "",
                          ret |-> FetchReturn(<<>>, 0, FetchErr("nil", 0, 0),
                                              [page |-> 0, page_size |-> 0])]
    /\ IF part = "accept" THEN TRUE
       ELSE /\ peerings = [id \in PeerIDs |-> "none"]
            /\ flags = [peeringID |-> "", checkOnly |-> FALSE, dryRun |-> FALSE]
            /\ acceptRet = NoAcceptRet
    /\ IF part = "args" THEN TRUE
       ELSE /\ args = NoArgs
            /\ vRet = NotValidated
    /\ IF part = "projects" THEN TRUE
       ELSE /\ pjRemote = <<>>
            /\ startPage = 1
            /\ pjPage = 1
            /\ pjPageSize = 1
            /\ processedProjectsNum = 0
            /\ projects = <<>>
            /\ totalProjectNum = 0
            /\ pjFetches = <<>>
            /\ pjRet = [returned |-> FALSE, err |-> Nil]
            /\ pjpc = "off"
    /\ IF part = "ctx" THEN TRUE
       ELSE /\ ctx = "background"
            /\ lateCommits = 0

\* ---------------------------------------------------------------- remote
IDOrder == <<"c1", "c2">>

\* a page: the clusters of S in id order, named by f, create_timestamp cts
PageOf(S, f, pid, cts) ==
    LET ids == SelectSeq(IDOrder, LAMBDA id : id \in S)
    IN [i \in 1..Len(ids) |-> Cluster(ids[i], pid, f[ids[i]], cts[ids[i]])]

\* every page of at most n clusters with the timestamps of TS
Pages(pid, n, TS) ==
    UNION {{PageOf(S, f, pid, cts) : f \in [S -> Names], cts \in [S -> TS]} :
            S \in {X \in SUBSET ClusterIDs : Cardinality(X) <= n}}

\* the remote's clusters: each id in no project ("") or in one, with a name
NoRemote == [id \in ClusterIDs |-> [project |-> "", name |-> "a"]]
RemoteStates ==
    [ClusterIDs -> {[project |-> "", name |-> "a"]}
                    \cup {[project |-> p, name |-> n] : p \in Projects, n \in Names}]

\* GET projects/{pid}/clusters of the honest remote: the whole listing
Listing(r, pid) ==
    PageOf({id \in ClusterIDs : r[id].project = pid},
           [id \in ClusterIDs |-> r[id].name], pid,
           [id \in ClusterIDs |-> "1"])

Min(a, b) == IF a <= b THEN a ELSE b

\* page p of size n of a listing
Slice(listing, p, n) == SubSeq(listing, (p - 1) * n + 1, Min(p * n, Len(listing)))

\* ClusterFetcher.FetchClusters: an error; or, from the honest remote, page p
\* with the listing's length as total; or, from any remote, any page of at
\* most n clusters with any total
FetchError == Err("fetch", "", "remote", FALSE)
Responses(f, r, pid, p, n) ==
    {[err |-> FetchError, items |-> <<>>, total |-> 0]}
        \cup IF f = "honest"
             THEN {[err |-> Nil, items |-> Slice(Listing(r, pid), p, n),
                    total |-> Len(Listing(r, pid))]}
             ELSE {[err |-> Nil, items |-> items, total |-> T] :
                    items \in Pages(pid, n, {"1"}), T \in 0..MaxTotal}

\* the runs enumerated: one project against any remote, up to two against
\* the honest one
Scenarios ==
    {[fetcher |-> "any", remote |-> NoRemote]}
        \cup {[fetcher |-> "honest", remote |-> r] : r \in RemoteStates}
KeyLists(f) ==
    IF f = "any" THEN {<<>>, <<"p1">>}
    ELSE {<<"p1">>, <<"p2">>, <<"p1", "p2">>, <<"p2", "p1">>}

\* ---------------------------------------------------------------- orchestrator
\* the error FetchAndStoreClusters wraps around the cause: what its message
\* formats (stage, item count, project, page size)
RunNil == [stage |-> "nil", count |-> Null, project |-> "", pageSize |-> Null,
           cause |-> Nil]
FetchFailed(pid, ps, cause) ==
    [stage |-> "fetch", count |-> Null, project |-> pid, pageSize |-> ps,
     cause |-> cause]
StoreFailed(n, pid, ps, cause) ==
    [stage |-> "store", count |-> n, project |-> pid, pageSize |-> ps,
     cause |-> cause]
MarkFailed(pid, cause) ==
    [stage |-> "mark", count |-> Null, project |-> pid, pageSize |-> Null,
     cause |-> cause]
NodesFailed(pid, ps, cause) ==
    [stage |-> "nodes", count |-> Null, project |-> pid, pageSize |-> ps,
     cause |-> cause]

NoRet == [returned |-> FALSE, projects |-> 0, clusters |-> 0, deleted |-> 0,
          err |-> RunNil]
\* faulty variant: the sums so far returned with the error
FailureReturnPartial(err) ==
    [returned |-> TRUE, projects |-> totalProcessedProjectNum,
     clusters |-> totalProcessedClusterNum, deleted |-> totalDeletedClusterCount,
     err |-> err]

\* return 0, 0, 0, err
FailureReturn(err) ==
    [returned |-> TRUE, projects |-> 0, clusters |-> 0, deleted |-> 0, err |-> err]
\* faulty variant: the second and the third result exchanged
SuccessReturnSwapped(p, c, d) ==
    [returned |-> TRUE, projects |-> p, clusters |-> d, deleted |-> c, err |-> RunNil]

\* return totalProcessedProjectNum, totalProcessedClusterNum, totalDeletedClusterCount, nil
\* (nodes: ..., totalProcessedNodeNum, nil)
SuccessReturn(p, c, d) ==
    [returned |-> TRUE, projects |-> p, clusters |-> c, deleted |-> d, err |-> RunNil]

\* faulty variant: one fetch per project, no loop
LoopDoneAfterFirstPage(processed, T) == TRUE

\* faulty variant: the exit test strict
LoopDoneStrict(processed, T) == processed > T

\* if processedClusterNum >= total { break }
LoopDone(processed, T) == processed >= T
\* faulty variant: the page number not incremented
NextPageSame(p) == p

\* page++
NextPage(p) == p + 1
\* faulty variant: the time of the call passed as the epoch
MarkEpochNow(start, t) == t

\* the syncedAt argument of MarkStaleClustersAsDeleted: syncStartTime, not
\* the time of the call
MarkEpoch(start, t) == start

\* one entry of calls
Call(op, i, pid, p, ps, n, T, epoch, count, ok) ==
    [op |-> op, i |-> i, project |-> pid, page |-> p, pageSize |-> ps,
     n |-> n, total |-> T, epoch |-> epoch, count |-> count, ok |-> ok]

\* faulty variant: the first project whatever the position
ProjectIDFirst == projectIDs[1]

\* the range variable of the loop over projectIDs
projectID == projectIDs[idx]

NoArg == [op |-> "none", clusters |-> <<>>, projectID |-> "", syncedAt |-> Null]
NoLast == [done |-> FALSE, fault |-> NoFault, before |-> EmptyTable,
           after |-> EmptyTable, at |-> Null, err |-> Nil, rowsAffected |-> 0,
           tx |-> "none"]

\* StoreClusterNodes(ctx, clusters) of the store: an error, or the number of
\* nodes it processed
NodeStoreError == Err("nodes", "", "db", FALSE)
StoreClusterNodes(cs) ==
    {[processedNodeNum |-> 0, err |-> NodeStoreError]}
        \cup {[processedNodeNum |-> n, err |-> Nil] : n \in 0..MaxNodeNum}

NoSums == [fetched |-> 0, marked |-> 0, nodes |-> 0]

InitRun ==
    /\ projectIDs = <<>>
    /\ pageSize = 1
    /\ idx = 1
    /\ syncStartTime = 0
    /\ processedClusterNum = 0
    /\ page = 1
    /\ clusters = <<>>
    /\ total = 0
    /\ totalProcessedProjectNum = 0
    /\ totalProcessedClusterNum = 0
    /\ totalDeletedClusterCount = 0
    /\ ret = NoRet
    /\ calls = <<>>
    /\ touched = {}
    /\ table0 = table
    /\ totalProcessedNodeNum = 0
    /\ sums = NoSums

Init ==
    /\ table \in InitTables
    /\ now = 0
    /\ tx = "none"
    /\ arg = NoArg
    /\ last = NoLast
    /\ prev = NoLast
    /\ \E sc \in Scenarios : fetcher = sc.fetcher /\ remote = sc.remote
    /\ variant = "marker"
    /\ pc = "idle"
    /\ InitRun
    /\ RoutesIdle
    /\ ExtIdleBut("")

\* time passes before the run starts: it starts anywhere in a second
Tick ==
    /\ UNCHANGED <<rtVars, extVars>>
    /\ pc = "idle"
    /\ now < TicksPerSecond - 1
    /\ now' = now + 1
    /\ UNCHANGED <<table, tx, arg, last, prev>>
    /\ UNCHANGED runVars

\* the command calls FetchAndStoreClusters(ctx, ids, ps), once per process;
\* an empty list returns at once
CallFetchAndStoreClusters ==
    /\ UNCHANGED <<rtVars, extVars>>
    /\ pc = "idle"
    /\ \E ids \in KeyLists(fetcher), ps \in 1..MaxPageSize :
        /\ projectIDs' = ids
        /\ pageSize' = ps
        /\ pc' = IF Len(ids) = 0 THEN "returned" ELSE "key"
        /\ ret' = IF Len(ids) = 0 THEN SuccessReturn(0, 0, 0) ELSE NoRet
    /\ UNCHANGED <<table, now, tx, arg, last, prev, fetcher, remote, idx, syncStartTime,
                   processedClusterNum, page, clusters, total,
                   totalProcessedProjectNum, totalProcessedClusterNum,
                   totalDeletedClusterCount, calls, touched, table0,
                   variant, totalProcessedNodeNum, sums>>

\* top of the range loop: syncStartTime := time.Now().UTC(), page := 1
StartProject ==
    /\ UNCHANGED <<rtVars, extVars>>
    /\ pc = "key"
    /\ now' = now + 1
    /\ IF variant = "marker"
       THEN /\ syncStartTime' = now'
            /\ calls' = Append(<<>>, Call("now", idx, projectID, Null, Null,
                                          Null, Null, now', Null, TRUE))
       ELSE /\ calls' = <<>>
            /\ UNCHANGED syncStartTime
    /\ processedClusterNum' = 0
    /\ page' = 1
    /\ touched' = {}
    /\ table0' = table
    /\ clusters' = <<>>
    /\ total' = 0
    /\ pc' = "fetch"
    /\ UNCHANGED <<table, tx, arg, last, prev, fetcher, remote, projectIDs, pageSize, idx,
                   totalProcessedProjectNum, totalProcessedClusterNum,
                   totalDeletedClusterCount, ret, variant,
                   totalProcessedNodeNum, sums>>

\* the statements run with ctx (ExecContext) fail once ctx is done: a store
\* call then ends at Begin or at its first statement
CtxAllows(fault) ==
    ctx = "done" =>
        \/ fault.at \in {"begin", "exec"}
        \/ fault.at = "upsert" /\ fault.i = 1

\* whether ctx ends inside a store call after its last statement and before
\* tx.Commit(): the transaction was begun with s.conn.Begin(), under no
\* context, so Commit does not look at ctx
CancelPoints(fault) ==
    IF ctx = "live" /\ fault.at \in {"none", "commit"} THEN BOOLEAN ELSE {FALSE}

\* c.fetcher.FetchClusters(ctx, projectID, page, pageSize) and its error check
FetchPage ==
    /\ UNCHANGED <<rtVars, extVars>>
    /\ pc = "fetch"
    /\ page <= MaxPage
    /\ \E resp \in Responses(fetcher, remote, projectID, page, pageSize) :
        /\ ctx = "done" => resp.err # Nil
        /\ calls' = Append(calls, Call("fetch", idx, projectID, page, pageSize,
                                       Len(resp.items), resp.total, Null, Null,
                                       resp.err = Nil))
        /\ IF resp.err # Nil
           THEN /\ ret' = FailureReturn(FetchFailed(projectID, pageSize, resp.err))
                /\ pc' = "returned"
                /\ UNCHANGED <<clusters, total, sums>>
           ELSE /\ clusters' = resp.items
                /\ total' = resp.total
                /\ sums' = [sums EXCEPT !.fetched = @ + Len(resp.items)]
                /\ pc' = "store"
                /\ UNCHANGED ret
    /\ UNCHANGED <<table, now, tx, arg, last, prev, fetcher, remote, projectIDs, pageSize,
                   idx, syncStartTime, processedClusterNum, page,
                   totalProcessedProjectNum, totalProcessedClusterNum,
                   totalDeletedClusterCount, touched, table0, variant,
                   totalProcessedNodeNum>>

\* c.store.StoreClusters(ctx, clusters) and its error check; then the count
\* and the loop exit test, or first the nodes of the page
StorePage ==
    /\ UNCHANGED <<rtVars, unitVars>>
    /\ pc = "store"
    /\ now' = IF Len(clusters) = 0 THEN now ELSE now + 1
    /\ \E fault \in StoreFaults(clusters), late \in BOOLEAN :
        LET r == StoreClusters(table, clusters, fault, now') IN
        /\ CtxAllows(fault)
        /\ late \in CancelPoints(fault)
        /\ ctx' = IF late THEN "done" ELSE ctx
        /\ lateCommits' = IF late /\ r.tx = "committed"
                          THEN lateCommits + 1 ELSE lateCommits
        /\ table' = r.table
        /\ tx' = IF Len(clusters) = 0 THEN tx ELSE r.tx
        /\ calls' = Append(calls, Call("store", idx, projectID, page, pageSize,
                                       Len(clusters), total, Null, Null,
                                       r.err = Nil))
        /\ IF r.err # Nil
           THEN /\ ret' = FailureReturn(StoreFailed(Len(clusters), projectID,
                                                    pageSize, r.err))
                /\ pc' = "returned"
                /\ UNCHANGED <<processedClusterNum, page, touched>>
           ELSE /\ touched' = touched \cup {clusters[i].ID : i \in 1..Len(clusters)}
                /\ IF variant = "nodes"
                   THEN pc' = "nodes" /\ UNCHANGED <<processedClusterNum, page>>
                   ELSE /\ processedClusterNum' = processedClusterNum + Len(clusters)
                        /\ IF LoopDone(processedClusterNum', total)
                           THEN pc' = "mark" /\ UNCHANGED page
                           ELSE pc' = "fetch" /\ page' = NextPage(page)
                /\ UNCHANGED ret
    /\ UNCHANGED <<arg, last, prev, fetcher, remote, projectIDs, pageSize, idx,
                   syncStartTime, clusters, total, totalProcessedProjectNum,
                   totalProcessedClusterNum, totalDeletedClusterCount, table0,
                   variant, totalProcessedNodeNum, sums>>

\* c.store.MarkStaleClustersAsDeleted(ctx, projectID, syncStartTime), its
\* error check, the three sums, and the next project or the return
MarkStale ==
    /\ UNCHANGED <<rtVars, unitVars>>
    /\ pc = "mark"
    /\ now' = now + 1
    /\ \E fault \in MarkFaults, late \in BOOLEAN :
        LET epoch == MarkEpoch(syncStartTime, now')
            r == MarkStaleClustersAsDeleted(table, projectID, epoch, fault, now')
        IN
        /\ CtxAllows(fault)
        /\ late \in CancelPoints(fault)
        /\ ctx' = IF late THEN "done" ELSE ctx
        /\ lateCommits' = IF late /\ r.tx = "committed"
                          THEN lateCommits + 1 ELSE lateCommits
        /\ table' = r.table
        /\ tx' = r.tx
        /\ calls' = Append(calls, Call("mark", idx, projectID, Null, Null, Null,
                                       Null, epoch, r.rowsAffected, r.err = Nil))
        /\ IF r.err # Nil
           THEN /\ ret' = FailureReturn(MarkFailed(projectID, r.err))
                /\ pc' = "returned"
                /\ UNCHANGED <<idx, totalProcessedProjectNum,
                               totalProcessedClusterNum, totalDeletedClusterCount,
                               sums>>
           ELSE /\ totalProcessedProjectNum' = totalProcessedProjectNum + 1
                /\ totalProcessedClusterNum' =
                        totalProcessedClusterNum + processedClusterNum
                /\ totalDeletedClusterCount' =
                        totalDeletedClusterCount + r.rowsAffected
                /\ sums' = [sums EXCEPT !.marked = @ + r.rowsAffected]
                /\ IF idx = Len(projectIDs)
                   THEN /\ pc' = "returned"
                        /\ ret' = SuccessReturn(totalProcessedProjectNum',
                                                totalProcessedClusterNum',
                                                totalDeletedClusterCount')
                        /\ UNCHANGED idx
                   ELSE /\ pc' = "key"
                        /\ idx' = idx + 1
                        /\ UNCHANGED ret
    /\ UNCHANGED <<arg, last, prev, fetcher, remote, projectIDs, pageSize, syncStartTime,
                   processedClusterNum, page, clusters, total, touched, table0,
                   variant, totalProcessedNodeNum>>

\* the "nodes" FetchAndStoreClusters: c.store.StoreClusterNodes(ctx, clusters),
\* its error check and sum, the count and the loop exit test, and past the
\* loop the sums and the next project or the return
StoreNodesPage ==
    /\ UNCHANGED <<rtVars, extVars>>
    /\ pc = "nodes"
    /\ now' = now + 1
    /\ \E r \in StoreClusterNodes(clusters) :
        /\ calls' = Append(calls, Call("nodes", idx, projectID, page, pageSize,
                                       Len(clusters), total, Null,
                                       r.processedNodeNum, r.err = Nil))
        /\ IF r.err # Nil
           THEN /\ ret' = FailureReturn(NodesFailed(projectID, pageSize, r.err))
                /\ pc' = "returned"
                /\ UNCHANGED <<idx, processedClusterNum, page,
                               totalProcessedProjectNum, totalProcessedClusterNum,
                               totalProcessedNodeNum, sums>>
           ELSE /\ totalProcessedNodeNum' = totalProcessedNodeNum + r.processedNodeNum
                /\ sums' = [sums EXCEPT !.nodes = @ + r.processedNodeNum]
                /\ processedClusterNum' = processedClusterNum + Len(clusters)
                /\ IF ~LoopDone(processedClusterNum', total)
                   THEN /\ pc' = "fetch"
                        /\ page' = NextPage(page)
                        /\ UNCHANGED <<idx, ret, totalProcessedProjectNum,
                                       totalProcessedClusterNum>>
                   ELSE /\ totalProcessedProjectNum' = totalProcessedProjectNum + 1
                        /\ totalProcessedClusterNum' =
                                totalProcessedClusterNum + processedClusterNum'
                        /\ UNCHANGED page
                        /\ IF idx = Len(projectIDs)
                           THEN /\ pc' = "returned"
                                /\ ret' = SuccessReturn(totalProcessedProjectNum',
                                                        totalProcessedClusterNum',
                                                        totalProcessedNodeNum')
                                /\ UNCHANGED idx
                           ELSE /\ pc' = "key"
                                /\ idx' = idx + 1
                                /\ UNCHANGED ret
    /\ UNCHANGED <<table, tx, arg, last, prev, fetcher, remote, projectIDs,
                   pageSize, syncStartTime, clusters, total,
                   totalDeletedClusterCount, touched, table0, variant>>

Next ==
    \/ Tick
    \/ CallFetchAndStoreClusters
    \/ StartProject
    \/ FetchPage
    \/ StorePage
    \/ MarkStale

Spec == Init /\ [][Next]_vars

\* ---------------------------------------------------------------- both variants
\* The run of either FetchAndStoreClusters: the "marker" one of
\* internal/clusters/service.go and the "nodes" one, each against the honest
\* remote and an empty or a filled table.
VariantTables ==
    {EmptyTable, [c1 |-> StoredRow("p1", "a", FALSE), c2 |-> StoredRow("p1", "a", FALSE)]}
VariantRemotes ==
    {r \in RemoteStates : \A id \in ClusterIDs : r[id].name = "a"}

InitVariants ==
    /\ table \in VariantTables
    /\ now = 0
    /\ tx = "none"
    /\ arg = NoArg
    /\ last = NoLast
    /\ prev = NoLast
    /\ fetcher = "honest"
    /\ remote \in VariantRemotes
    /\ variant \in {"marker", "nodes"}
    /\ pc = "idle"
    /\ InitRun
    /\ RoutesIdle
    /\ ExtIdleBut("")

NextVariants ==
    \/ Tick
    \/ CallFetchAndStoreClusters
    \/ StartProject
    \/ FetchPage
    \/ StorePage
    \/ MarkStale
    \/ StoreNodesPage

SpecVariants == InitVariants /\ [][NextVariants]_vars

\* ---------------------------------------------------------------- cancellation
\* The same run under a context that can end: runFetchClustersCmd passes
\* context.WithTimeout(ctx, args.JobTimeout) down to every call.
InitCancel ==
    /\ table \in InitTables
    /\ now = 0
    /\ tx = "none"
    /\ arg = NoArg
    /\ last = NoLast
    /\ prev = NoLast
    /\ \E sc \in Scenarios : fetcher = sc.fetcher /\ remote = sc.remote
    /\ variant = "marker"
    /\ pc = "idle"
    /\ InitRun
    /\ RoutesIdle
    /\ ExtIdleBut("ctx")
    /\ ctx = "live"
    /\ lateCommits = 0

\* the deadline passes, or the caller cancels, between two calls of the run
Cancel ==
    /\ ctx = "live"
    /\ pc \in {"key", "fetch", "store", "mark"}
    /\ ctx' = "done"
    /\ UNCHANGED <<table, now, tx, arg, last, prev, lateCommits>>
    /\ UNCHANGED runVars
    /\ UNCHANGED <<rtVars, unitVars>>

NextCancel ==
    \/ Next
    \/ Cancel

SpecCancel == InitCancel /\ [][NextCancel]_vars

\* ---------------------------------------------------------------- UpdateRoutes
\* faulty variant: a route without a peering connection taken as up to date
ScanRoutesIgnoringUnset(routes, i, dest, want) ==
    LET hit == {j \in i..Len(routes) :
                    AwsToString(routes[j].DestinationCidrBlock) = dest}
    IN [found |-> hit # {},
        updateNeeded |-> \E j \in hit :
            /\ routes[j].VpcPeeringConnectionId # NilString
            /\ routes[j].VpcPeeringConnectionId # want,
        currentPeerID |-> ""]

\* faulty variant: no route is ever found
ScanRoutesNeverFound(routes, i, dest, want) ==
    [found |-> FALSE, updateNeeded |-> FALSE, currentPeerID |-> ""]

\* the inner loop over rtb.Routes from position i: found, updateNeeded and
\* currentPeerID when it breaks or runs out
RECURSIVE ScanRoutes(_, _, _, _)
ScanRoutes(routes, i, dest, want) ==
    IF i > Len(routes)
    THEN [found |-> FALSE, updateNeeded |-> FALSE, currentPeerID |-> ""]
    ELSE IF AwsToString(routes[i].DestinationCidrBlock) = dest
    THEN IF routes[i].VpcPeeringConnectionId = NilString
         THEN [found |-> TRUE, updateNeeded |-> TRUE, currentPeerID |-> "unset"]
         ELSE IF AwsToString(routes[i].VpcPeeringConnectionId) # want
         THEN [found |-> TRUE, updateNeeded |-> TRUE,
               currentPeerID |-> AwsToString(routes[i].VpcPeeringConnectionId)]
         ELSE [found |-> TRUE, updateNeeded |-> FALSE, currentPeerID |-> ""]
    ELSE ScanRoutes(routes, i + 1, dest, want)

\* faulty variant: dryRun not consulted
DecideIgnoringDryRun(s, dry) ==
    CASE ~s.found -> "create"
      [] s.updateNeeded -> "replace"
      [] OTHER -> "none"

\* the EC2 mutation the switch issues for a table
Decide(s, dry) ==
    CASE ~s.found -> IF dry THEN "none" ELSE "create"
      [] s.updateNeeded -> IF dry THEN "none" ELSE "replace"
      [] OTHER -> "none"

\* the line the switch writes for a table once its mutation, if any, is done
ReportKind(s, dry) ==
    CASE ~s.found -> IF dry THEN "would-add" ELSE "added"
      [] s.updateNeeded -> IF dry THEN "would-update" ELSE "updated"
      [] OTHER -> "skipping"

\* a line written to w: what its format string carries
Line(kind, name, id, from, to, dest, n) ==
    [kind |-> kind, name |-> name, table |-> id, from |-> from, to |-> to,
     cidr |-> dest, n |-> n]
ReportLine(s, dry, name, id, dest, want) ==
    Line(ReportKind(s, dry), name, id,
         IF s.found /\ s.updateNeeded THEN s.currentPeerID ELSE "", want, dest, 0)

\* faulty variant: the error without the table
RouteMutationFailedSomewhere(op, dest, name, id, cause) ==
    [stage |-> op, cidr |-> dest, vpc |-> "", name |-> "", table |-> 0,
     cause |-> cause]

\* fmt.Errorf("failed to create|replace route for CIDR %s in route table %q (ID: %s): %w")
RouteMutationFailed(op, dest, name, id, cause) ==
    [stage |-> op, cidr |-> dest, vpc |-> "", name |-> name, table |-> id,
     cause |-> cause]
ConfigFailed(cause) ==
    [stage |-> "config", cidr |-> "", vpc |-> "", name |-> "", table |-> 0,
     cause |-> cause]
DescribeFailed(vpc, cause) ==
    [stage |-> "describe", cidr |-> "", vpc |-> vpc, name |-> "", table |-> 0,
     cause |-> cause]

\* one entry of ec2Calls
Ec2Call(op, id, dest, peer, ok) ==
    [op |-> op, table |-> id, cidr |-> dest, peer |-> peer, ok |-> ok]

\* EC2 keeps the destination of a route in canonical form, the host bits
\* cleared: a DestinationCidrBlock of 10.0.0.5/16 is stored, and listed, as
\* 10.0.0.0/16
Canonical(dest) == IF dest = "10.0.0.5/16" THEN "10.0.0.0/16" ELSE dest

\* EC2: CreateRoute adds a route to the table, ReplaceRoute retargets the
\* table's route for the destination
CreateRoute(routes, dest, peer) == Append(routes, Route(Canonical(dest), peer))
ReplaceRoute(routes, dest, peer) ==
    [j \in 1..Len(routes) |->
        IF routes[j].DestinationCidrBlock = Canonical(dest)
        THEN Route(Canonical(dest), peer)
        ELSE routes[j]]
Mutate(op, routes, dest, peer) ==
    CASE op = "create" -> CreateRoute(routes, dest, peer)
      [] op = "replace" -> ReplaceRoute(routes, dest, peer)
      [] OTHER -> routes

\* EC2: DescribeRouteTables with the vpc-id filter, the tables in id order
DescribeOutput(rts, vpc) ==
    LET ids == SelectSeq([j \in 1..MaxRouteTables |-> j],
                         LAMBDA id : rts[id].vpc = vpc)
    IN [described |-> TRUE,
        RouteTables |-> [k \in 1..Len(ids) |->
            [RouteTableId |-> ids[k], Routes |-> rts[ids[k]].routes,
             Tags |-> TagsOf(ids[k])]]]

InitRoutes ==
    /\ table = EmptyTable
    /\ now = 0
    /\ tx = "none"
    /\ arg = NoArg
    /\ last = NoLast
    /\ prev = NoLast
    /\ fetcher = "any"
    /\ remote = NoRemote
    /\ variant = "marker"
    /\ pc = "off"
    /\ InitRun
    /\ routeTables \in RemoteRouteTables
    /\ routeTables0 = routeTables
    /\ vpcID = "vpc-1"
    /\ cidr \in CIDRs
    /\ peerID \in PeerIDs
    /\ dryRun \in BOOLEAN
    /\ rtOutput = NoOutput
    /\ rtIdx = 1
    /\ w = <<>>
    /\ ec2Calls = <<>>
    /\ rtRet = NoRtRet
    /\ rtPrev = NoRtRet
    /\ rtpc = "start"
    /\ ExtIdleBut("")

\* config.LoadDefaultConfig, DescribeRouteTables, their error checks and the
\* first line written
DescribeRouteTables ==
    /\ rtpc = "start"
    /\ \E outcome \in {"config-error", "describe-error", "ok"} :
        CASE outcome = "config-error" ->
                /\ rtRet' = [returned |-> TRUE, err |-> ConfigFailed("aws")]
                /\ rtpc' = "returned"
                /\ UNCHANGED <<rtOutput, w, ec2Calls>>
          [] outcome = "describe-error" ->
                /\ ec2Calls' = Append(ec2Calls, Ec2Call("describe", 0, "", "", FALSE))
                /\ rtRet' = [returned |-> TRUE, err |-> DescribeFailed(vpcID, "ec2")]
                /\ rtpc' = "returned"
                /\ UNCHANGED <<rtOutput, w>>
          [] OTHER ->
                LET out == DescribeOutput(routeTables, vpcID)
                    n == Len(out.RouteTables)
                IN
                /\ ec2Calls' = Append(ec2Calls, Ec2Call("describe", 0, "", "", TRUE))
                /\ rtOutput' = out
                /\ IF n = 0
                   THEN /\ w' = Append(w, Line("none-found", "", 0, "", "", "", 0))
                        /\ rtRet' = [returned |-> TRUE, err |-> RtNil]
                        /\ rtpc' = "returned"
                   ELSE /\ w' = Append(w, Line("found", "", 0, "", "", "", n))
                        /\ rtpc' = "loop"
                        /\ UNCHANGED rtRet
    /\ UNCHANGED <<routeTables, routeTables0, vpcID, cidr, peerID, dryRun, rtIdx,
                   rtPrev>>
    /\ UNCHANGED dbVars
    /\ UNCHANGED runVars
    /\ UNCHANGED extVars

\* one iteration of the loop over rtOutput.RouteTables: the scan of the
\* table's routes, the switch with its EC2 call, error check and line, and
\* past the last table the return
ReconcileRouteTable ==
    /\ rtpc = "loop"
    /\ LET rtb == rtOutput.RouteTables[rtIdx]
           rtbID == rtb.RouteTableId
           s == ScanRoutes(rtb.Routes, 1, cidr, peerID)
           rtbName == GetNameFromTags(rtb.Tags, 1)
           op == Decide(s, dryRun)
       IN \E ok \in BOOLEAN :
        /\ op = "none" => ok
        \* EC2 refuses a second route for a destination (RouteAlreadyExists)
        /\ (op = "create" /\ \E j \in 1..Len(routeTables[rtbID].routes) :
                routeTables[rtbID].routes[j].DestinationCidrBlock = Canonical(cidr))
                => ~ok
        /\ ec2Calls' = IF op = "none" THEN ec2Calls
                       ELSE Append(ec2Calls, Ec2Call(op, rtbID, cidr, peerID, ok))
        /\ IF ~ok
           THEN /\ rtRet' = [returned |-> TRUE,
                             err |-> RouteMutationFailed(op, cidr, rtbName, rtbID, "ec2")]
                /\ rtpc' = "returned"
                /\ UNCHANGED <<routeTables, w, rtIdx>>
           ELSE /\ routeTables' = [routeTables EXCEPT ![rtbID].routes =
                                        Mutate(op, @, cidr, peerID)]
                /\ w' = Append(w, ReportLine(s, dryRun, rtbName, rtbID, cidr, peerID))
                /\ rtIdx' = rtIdx + 1
                /\ IF rtIdx = Len(rtOutput.RouteTables)
                   THEN /\ rtRet' = [returned |-> TRUE, err |-> RtNil]
                        /\ rtpc' = "returned"
                   ELSE UNCHANGED <<rtRet, rtpc>>
    /\ UNCHANGED <<routeTables0, vpcID, cidr, peerID, dryRun, rtOutput, rtPrev>>
    /\ UNCHANGED dbVars
    /\ UNCHANGED runVars
    /\ UNCHANGED extVars

NextRoutes ==
    \/ DescribeRouteTables
    \/ ReconcileRouteTable

SpecRoutes == InitRoutes /\ [][NextRoutes]_vars

\* ---------------------------------------------------------------- accept-peering
\* faulty variant: check-only does not hold the mutation back
MustAcceptIgnoringCheckOnly(state, check) == state = "pending-acceptance"

\* the switch over state: whether AcceptVpcPeeringConnection is called
MustAccept(state, check) == state = "pending-acceptance" /\ ~check

\* the line the switch writes when it calls nothing
PeeringLine(state, id) ==
    Line(CASE state = "pending-acceptance" -> "check"
           [] state = "active" -> "skip-active"
           [] OTHER -> "skip", "", 0, state, "", id, 0)

\* vpcpeering.AcceptVPCPeeringConnection(ctx, id, w, check) on the connections
\* ps: [err, state (the state it read, "" when it read none), lines, calls,
\* peerings]. fault: config.LoadDefaultConfig, DescribeVpcPeeringConnections
\* or AcceptVpcPeeringConnection fails; accepted: the state EC2 gives an
\* accepted connection
AcceptVPCPeeringConnection(ps, id, check, fault, accepted) ==
    LET state == IF id \in DOMAIN ps THEN ps[id] ELSE "none"
        out(err, read, lines, cs, after) ==
            [err |-> err, state |-> read, lines |-> lines, calls |-> cs,
             peerings |-> after]
    IN CASE fault = "config" ->
                out(AcceptFailed("config", ""), "", <<>>, <<>>, ps)
         [] fault = "describe" ->
                out(AcceptFailed("describe", id), "", <<>>, <<>>, ps)
         [] state = "none" ->
                out(AcceptFailed("not found", id), "", <<>>, <<>>, ps)
         [] MustAccept(state, check) /\ fault = "accept" ->
                out(AcceptFailed("accept", id), state,
                    <<Line("accepting", "", 0, "", "", id, 0)>>,
                    <<Ec2Call("accept", 0, "", id, FALSE)>>, ps)
         [] MustAccept(state, check) ->
                out(AcceptFailed("nil", ""), state,
                    <<Line("accepting", "", 0, "", "", id, 0),
                      Line("success", "", 0, "", "", id, 0)>>,
                    <<Ec2Call("accept", 0, "", id, TRUE)>>,
                    [ps EXCEPT ![id] = accepted])
         [] OTHER ->
                out(AcceptFailed("nil", ""), state, <<PeeringLine(state, id)>>,
                    <<>>, ps)

\* ---------------------------------------------------------------- the store alone
\* The store called directly, as its tests would: one call, drawn with the
\* table it finds, applied once and, when that succeeded, once more.

\* rows an earlier sync left: stored in second 0, last changed in second 0 or
\* 1, and, when deleted, marked at their last change
DBRow(pid, deleted, changed) ==
    [exists |-> TRUE, project_id |-> pid, name |-> "a", create_timestamp |-> 1,
     is_deleted |-> deleted, created_at |-> 0, updated_at |-> changed,
     deleted_at |-> IF deleted THEN changed ELSE Null]
DBTables ==
    [ClusterIDs -> {NoRow} \cup {DBRow(p, d, u) : p \in Projects, d \in BOOLEAN,
                                                   u \in {0, TicksPerSecond}}]

\* the calls drawn: StoreClusters of a page, MarkStaleClustersAsDeleted of a
\* project and an epoch
DBArgs ==
    {[op |-> "store", clusters |-> cs, projectID |-> "", syncedAt |-> Null] :
        cs \in Pages("p1", MaxPageSize, {"1", "x"})
                \cup {<<Cluster("c1", "p2", "b", "2")>>}}
      \cup {[op |-> "mark", clusters |-> <<>>, projectID |-> p, syncedAt |-> e] :
                p \in Projects, e \in 0..MaxTime}

InitDB ==
    /\ table \in DBTables
    /\ now \in {TicksPerSecond, TicksPerSecond + 1}
    /\ tx = "none"
    /\ arg \in DBArgs
    /\ last = NoLast
    /\ prev = NoLast
    /\ fetcher = "any"
    /\ remote = NoRemote
    /\ variant = "marker"
    /\ pc = "db"
    /\ InitRun
    /\ RoutesIdle
    /\ ExtIdleBut("")

Result(fault, before, r, t, n) ==
    [done |-> TRUE, fault |-> fault, before |-> before, after |-> r.table,
     at |-> t, err |-> r.err, rowsAffected |-> n, tx |-> r.tx]

DBCanApply == pc = "db" /\ ~prev.done /\ (last.done => last.err = Nil)

\* s.StoreClusters(ctx, arg.clusters)
DBStoreClusters ==
    /\ UNCHANGED <<rtVars, extVars>>
    /\ DBCanApply
    /\ arg.op = "store"
    /\ now' = now + 1
    /\ \E fault \in StoreFaults(arg.clusters) :
        LET r == StoreClusters(table, arg.clusters, fault, now') IN
        /\ table' = r.table
        /\ tx' = r.tx
        /\ last' = Result(fault, table, r, now', 0)
    /\ prev' = last
    /\ UNCHANGED arg
    /\ UNCHANGED runVars

\* s.MarkStaleClustersAsDeleted(ctx, arg.projectID, arg.syncedAt)
DBMarkStale ==
    /\ UNCHANGED <<rtVars, extVars>>
    /\ DBCanApply
    /\ arg.op = "mark"
    /\ now' = now + 1
    /\ \E fault \in MarkFaults :
        LET r == MarkStaleClustersAsDeleted(table, arg.projectID, arg.syncedAt,
                                            fault, now') IN
        /\ table' = r.table
        /\ tx' = r.tx
        /\ last' = Result(fault, table, r, now', r.rowsAffected)
    /\ prev' = last
    /\ UNCHANGED arg
    /\ UNCHANGED runVars

NextDB ==
    \/ DBStoreClusters
    \/ DBMarkStale

SpecDB == InitDB /\ [][NextDB]_vars

\* ---------------------------------------------------------------- functions alone
\* One function of the program called directly, as its tests call it: each
\* store twice in a row with any two batches, each fetcher against any
\* answer, the accept-peering command, validateFetchClustersArgs.

ProjectBatches ==
    LET one == {Project(id, n, c, cts) :
                    id \in Projects, n \in Names,
                    c \in {Count(0, 1), Count(1, 1)}, cts \in {"2", "x"}}
    IN {<<>>} \cup {<<p>> : p \in one}
              \cup {<<p, Project("p2", "a", Count(0, 1), "1")>> :
                        p \in {q \in one : q.ID = "p1"}}
ClusterBatches ==
    Pages("p1", MaxPageSize, {"1", "x"}) \cup {<<Cluster("c1", "p2", "b", "2")>>}

InitUnits ==
    /\ pc \in {"stores", "api", "accept", "args"}
    /\ table \in IF pc = "stores"
                 THEN {EmptyTable,
                       [EmptyTable EXCEPT !["c1"] = StoredRow("p1", "a", TRUE)]}
                 ELSE {EmptyTable}
    /\ now = TicksPerSecond
    /\ tx = "none"
    /\ arg = NoArg
    /\ last = NoLast
    /\ prev = NoLast
    /\ fetcher = "any"
    /\ remote = NoRemote
    /\ variant = "marker"
    /\ InitRun
    /\ RoutesIdle
    /\ ExtIdleBut(pc)
    /\ pc = "stores" =>
            /\ projectRows \in
                {EmptyProjects,
                 [EmptyProjects EXCEPT !["p1"] =
                    [exists |-> TRUE, name |-> "a", cluster_count |-> 1,
                     create_timestamp |-> 1, fetched_at |-> 0]]}
            /\ pjArg = <<>>
            /\ pjLast = NoPjLast
            /\ pjPrev = NoPjLast
    /\ pc = "api" =>
            /\ fetchArg \in [endpoint : {"https://api", ":bad"},
                             page : -1..MaxPage, pageSize : -1..MaxPageSize]
            /\ response \in
                {DoFailed} \cup
                    {[err |-> FALSE, StatusCode |-> st, Body |-> b] :
                        st \in {StatusOK, 204, 400, StatusUnauthorized,
                                StatusTooManyRequests, 500},
                        b \in Bodies}
            /\ fetched = [done |-> FALSE, by |-> "",
                          ret |-> FetchReturn(<<>>, 0, FetchErr("nil", 0, 0),
                                              [page |-> 0, page_size |-> 0])]
    /\ pc = "accept" =>
            /\ peerings \in [PeerIDs -> PeeringStates \cup {"none"}]
            /\ flags \in [peeringID : PeeringIDs, checkOnly : BOOLEAN,
                          dryRun : BOOLEAN]
            /\ acceptRet = NoAcceptRet
    /\ pc = "args" =>
            /\ args \in [APIKey : {"", "key"}, APISecret : {"", "secret"},
                         APIEndpointBase : {"", "https://example.test"},
                         ProjectIDs : {<<>>, <<"p1">>, <<"p1", "p2">>},
                         PageSize : {-1, 0, 1, 100, 101},
                         All : BOOLEAN,
                         DBPort : {0, 1, 65535, 65536},
                         HTTPTimeout : {-1, 0, 1},
                         JobTimeout : {-1, 0, 1}]
            /\ vRet = NotValidated

\* s.StoreClusters(ctx, cs) of the cluster store
StoreClustersBatch ==
    /\ pc = "stores"
    /\ ~prev.done
    /\ ~pjLast.done
    /\ now' = now + 1
    /\ \E cs \in ClusterBatches :
        \E fault \in StoreFaults(cs) :
            LET r == StoreClusters(table, cs, fault, now') IN
            /\ table' = r.table
            /\ tx' = r.tx
            /\ last' = Result(fault, table, r, now', 0)
            /\ arg' = [op |-> "store", clusters |-> cs, projectID |-> "",
                       syncedAt |-> Null]
    /\ prev' = last
    /\ UNCHANGED runVars
    /\ UNCHANGED <<rtVars, extVars>>

\* s.StoreProjects(ctx, ps) of the project store
StoreProjectsBatch ==
    /\ pc = "stores"
    /\ ~pjPrev.done
    /\ ~last.done
    /\ now' = now + 1
    /\ \E ps \in ProjectBatches :
        \E fault \in StoreFaults(ps) :
            LET r == StoreProjects(projectRows, ps, fault, now') IN
            /\ projectRows' = r.table
            /\ pjLast' = [done |-> TRUE, fault |-> fault, before |-> projectRows,
                          after |-> r.table, at |-> now', err |-> r.err,
                          tx |-> r.tx]
            /\ pjArg' = ps
    /\ pjPrev' = pjLast
    /\ UNCHANGED <<table, tx, arg, last, prev>>
    /\ UNCHANGED runVars
    /\ UNCHANGED <<rtVars, fetchArg, response, fetched, peerings, flags,
                   acceptRet, args, vRet, pjVars, ctx, lateCommits>>

\* f.FetchClusters(ctx, projectID, page, pageSize) of the API fetcher
CallFetchClusters ==
    /\ pc = "api"
    /\ ~fetched.done
    /\ fetched' = [done |-> TRUE, by |-> "clusters",
                   ret |-> FetchClusters(fetchArg.endpoint, fetchArg.page,
                                         fetchArg.pageSize, response)]
    /\ UNCHANGED dbVars
    /\ UNCHANGED runVars
    /\ UNCHANGED <<rtVars, projectRows, pjArg, pjLast, pjPrev, fetchArg, response,
                   peerings, flags, acceptRet, args, vRet, pjVars, ctx, lateCommits>>

\* f.FetchProjects(ctx, page, pageSize) of the API fetcher
CallFetchProjects ==
    /\ pc = "api"
    /\ ~fetched.done
    /\ fetched' = [done |-> TRUE, by |-> "projects",
                   ret |-> FetchProjects(fetchArg.endpoint, fetchArg.page,
                                         fetchArg.pageSize, response)]
    /\ UNCHANGED dbVars
    /\ UNCHANGED runVars
    /\ UNCHANGED <<rtVars, projectRows, pjArg, pjLast, pjPrev, fetchArg, response,
                   peerings, flags, acceptRet, args, vRet, pjVars, ctx, lateCommits>>

\* the Action of AcceptPeeringCmd: the checks of the flags, the dry run, or
\* the call of vpcpeering.AcceptVPCPeeringConnection
AcceptPeeringCmd ==
    /\ pc = "accept"
    /\ ~acceptRet.returned
    /\ \E fault \in {"none", "config", "describe", "accept"},
          accepted \in {"provisioning", "active"}, printed \in BOOLEAN :
        LET r == AcceptVPCPeeringConnection(peerings, flags.peeringID,
                                            flags.checkOnly, fault, accepted)
            back(err, state) == [returned |-> TRUE, err |-> err, state |-> state,
                                 before |-> peerings]
        IN CASE flags.peeringID = "" ->
                    /\ acceptRet' = back(AcceptFailed("required", ""), "")
                    /\ UNCHANGED <<peerings, w, ec2Calls>>
             [] ~HasPcxPrefix(flags.peeringID) ->
                    /\ acceptRet' = back(AcceptFailed("prefix", flags.peeringID), "")
                    /\ UNCHANGED <<peerings, w, ec2Calls>>
             [] flags.checkOnly /\ flags.dryRun ->
                    /\ acceptRet' = back(AcceptFailed("both flags", ""), "")
                    /\ UNCHANGED <<peerings, w, ec2Calls>>
             [] flags.dryRun ->
                    \* util.PrintAWSVariables prints, or fails unnoticed
                    /\ acceptRet' = back(AcceptFailed("nil", ""), "")
                    /\ w' = IF printed
                            THEN Append(w, Line("aws-variables", "", 0, "", "", "", 0))
                            ELSE w
                    /\ UNCHANGED <<peerings, ec2Calls>>
             [] OTHER ->
                    /\ acceptRet' = back(r.err, r.state)
                    /\ peerings' = r.peerings
                    /\ w' = w \o r.lines
                    /\ ec2Calls' = ec2Calls \o r.calls
    /\ UNCHANGED dbVars
    /\ UNCHANGED runVars
    /\ UNCHANGED <<routeTables, routeTables0, vpcID, cidr, peerID, dryRun,
                   rtOutput, rtIdx, rtRet, rtPrev, rtpc>>
    /\ UNCHANGED <<projectRows, pjArg, pjLast, pjPrev, fetchArg, response, fetched,
                   flags, args, vRet, pjVars, ctx, lateCommits>>

\* validateFetchClustersArgs(args) as runFetchClustersCmd calls it
CallValidateFetchClustersArgs ==
    /\ pc = "args"
    /\ ~vRet.returned
    /\ LET r == validateFetchClustersArgs(args) IN
        /\ args' = r.v
        /\ vRet' = [returned |-> TRUE, err |-> r.err, given |-> args]
    /\ UNCHANGED dbVars
    /\ UNCHANGED runVars
    /\ UNCHANGED <<rtVars, projectRows, pjArg, pjLast, pjPrev, fetchArg, response,
                   fetched, peerings, flags, acceptRet, pjVars, ctx, lateCommits>>

NextUnits ==
    \/ StoreClustersBatch
    \/ StoreProjectsBatch
    \/ CallFetchClusters
    \/ CallFetchProjects
    \/ AcceptPeeringCmd
    \/ CallValidateFetchClustersArgs

SpecUnits == InitUnits /\ [][NextUnits]_vars

\* ---------------------------------------------------------------- project service
\* FetchAndStoreProjects(ctx, startPage, pjPageSize) as fetch-projects calls
\* it with --page and --page-size, against a remote that lists its projects
\* page by page, reports their number as the total and answers a page past
\* the last with no project; the fetch may fail, the store may fail.
InitProjects ==
    /\ table = EmptyTable
    /\ now \in {TicksPerSecond, TicksPerSecond + 1}
    /\ tx = "none"
    /\ arg = NoArg
    /\ last = NoLast
    /\ prev = NoLast
    /\ fetcher = "any"
    /\ remote = NoRemote
    /\ variant = "marker"
    /\ pc = "projects"
    /\ InitRun
    /\ RoutesIdle
    /\ ExtIdleBut("projects")
    /\ pjRemote \in {SubSeq(<<Project("p1", n1, Count(0, 1), "1"),
                              Project("p2", n2, Count(0, 2), "x")>>, 1, k) :
                        n1 \in Names, n2 \in Names, k \in 0..2}
    /\ startPage \in 1..(MaxPage + 1)
    /\ pjPage = startPage
    /\ pjPageSize \in 1..MaxPageSize
    /\ processedProjectsNum = 0
    /\ projects = <<>>
    /\ totalProjectNum = 0
    /\ pjFetches = <<>>
    /\ pjRet = [returned |-> FALSE, err |-> Nil]
    /\ pjpc = "fetch"

\* s.fetcher.FetchProjects(ctx, page, pageSize) and its error check
FetchProjectsPage ==
    /\ pjpc = "fetch"
    /\ pjPage <= MaxPage + 3
    /\ \E failed \in BOOLEAN :
        /\ pjFetches' = Append(pjFetches,
                               [page |-> pjPage,
                                n |-> IF failed THEN 0
                                      ELSE Len(Slice(pjRemote, pjPage, pjPageSize)),
                                ok |-> ~failed])
        /\ IF failed
           THEN /\ pjRet' = [returned |-> TRUE, err |-> FetchError]
                /\ pjpc' = "returned"
                /\ UNCHANGED <<projects, totalProjectNum>>
           ELSE /\ projects' = Slice(pjRemote, pjPage, pjPageSize)
                /\ totalProjectNum' = Len(pjRemote)
                /\ pjpc' = "store"
                /\ UNCHANGED pjRet
    /\ UNCHANGED <<pjRemote, startPage, pjPage, pjPageSize, processedProjectsNum>>
    /\ UNCHANGED dbVars
    /\ UNCHANGED runVars
    /\ UNCHANGED <<rtVars, projectRows, pjArg, pjLast, pjPrev, fetchArg, response,
                   fetched, peerings, flags, acceptRet, args, vRet, ctx,
                   lateCommits>>

\* s.store.StoreProjects(ctx, projects) and its error check; then the count,
\* the loop exit test and page++
StoreProjectsPage ==
    /\ pjpc = "store"
    /\ now' = IF Len(projects) = 0 THEN now ELSE now + 1
    /\ \E fault \in StoreFaults(projects) :
        LET r == StoreProjects(projectRows, projects, fault, now') IN
        /\ projectRows' = r.table
        /\ IF r.err # Nil
           THEN /\ pjRet' = [returned |-> TRUE, err |-> r.err]
                /\ pjpc' = "returned"
                /\ UNCHANGED <<processedProjectsNum, pjPage>>
           ELSE /\ processedProjectsNum' = processedProjectsNum + Len(projects)
                /\ IF processedProjectsNum' >= totalProjectNum
                   THEN /\ pjRet' = [returned |-> TRUE, err |-> Nil]
                        /\ pjpc' = "returned"
                        /\ UNCHANGED pjPage
                   ELSE /\ pjPage' = pjPage + 1
                        /\ pjpc' = "fetch"
                        /\ UNCHANGED pjRet
    /\ UNCHANGED <<pjRemote, startPage, pjPageSize, projects, totalProjectNum,
                   pjFetches>>
    /\ UNCHANGED <<table, tx, arg, last, prev>>
    /\ UNCHANGED runVars
    /\ UNCHANGED <<rtVars, pjArg, pjLast, pjPrev, fetchArg, response, fetched,
                   peerings, flags, acceptRet, args, vRet, ctx, lateCommits>>

NextProjects ==
    \/ FetchProjectsPage
    \/ StoreProjectsPage

SpecProjects == InitProjects /\ [][NextProjects]_vars

\* ---------------------------------------------------------------- the commands
\* One command of the tool run by the operator: accept-peering once, or
\* update-routes once and, when it has returned, once more with the same
\* flags.
InitCommands ==
    /\ pc \in {"accept", "routes"}
    /\ table = EmptyTable
    /\ now = 0
    /\ tx = "none"
    /\ arg = NoArg
    /\ last = NoLast
    /\ prev = NoLast
    /\ fetcher = "any"
    /\ remote = NoRemote
    /\ variant = "marker"
    /\ InitRun
    /\ ExtIdleBut("accept")
    /\ acceptRet = NoAcceptRet
    /\ pc = "accept" =>
            /\ RoutesIdle
            /\ peerings \in [PeerIDs -> PeeringStates \cup {"none"}]
            /\ flags \in [peeringID : PeeringIDs, checkOnly : BOOLEAN,
                          dryRun : BOOLEAN]
    /\ pc = "routes" =>
            /\ flags = [peeringID |-> "", checkOnly |-> FALSE, dryRun |-> FALSE]
            /\ routeTables \in
                [RouteTableIDs ->
                    {[vpc |-> "vpc-1", routes |-> rs] :
                        rs \in {<<>>, <<GatewayRoute>>}
                                \cup {<<Route("10.0.0.0/16", p)>> :
                                        p \in PeerIDs \cup {NilString}}}
                      \cup {[vpc |-> "vpc-2", routes |-> <<>>]}]
            /\ routeTables0 = routeTables
            /\ dryRun \in BOOLEAN
            /\ \E f \in ({"vpc-1"} \X {"10.0.0.0/16", "10.0.0.5/16"} \X PeerIDs)
                        \cup {<<"", "10.0.0.0/16", "pcx-A">>,
                              <<"rtb-1", "10.0.0.0/16", "pcx-A">>,
                              <<"vpc-1", "", "pcx-A">>,
                              <<"vpc-1", "10.0.0.0", "pcx-A">>,
                              <<"vpc-1", "10.0.0.0/16", "">>,
                              <<"vpc-1", "10.0.0.0/16", "rtb-1">>} :
                    vpcID = f[1] /\ cidr = f[2] /\ peerID = f[3]
            /\ peerings \in
                IF dryRun
                THEN {[id \in PeerIDs |-> st] : st \in PeeringStates \cup {"none"}}
                ELSE {[id \in PeerIDs |-> "pending-acceptance"]}
            /\ rtOutput = NoOutput
            /\ rtIdx = 1
            /\ w = <<>>
            /\ ec2Calls = <<>>
            /\ rtRet = NoRtRet
            /\ rtPrev = NoRtRet
            /\ rtpc = "cmd"

\* the Action of UpdateRoutesCmd up to its call of vpcrtb.UpdateRoutes: the
\* checks of the flags (net.ParseCIDR accepts a CIDR with host bits set) and,
\* in a dry run, the line, the peering check with checkOnly = true, whose
\* error is only written, and util.PrintAWSVariables
UpdateRoutesCmd ==
    /\ rtpc = "cmd"
    /\ \E fault \in {"none", "config", "describe"},
          accepted \in {"provisioning", "active"}, printed \in BOOLEAN :
        LET r == AcceptVPCPeeringConnection(peerings, peerID, TRUE, fault, accepted)
            refused ==
                CASE vpcID = "" -> "vpc-id empty"
                  [] vpcID \notin VpcIDs -> "vpc-id prefix"
                  [] cidr = "" -> "cidr empty"
                  [] cidr \notin CIDRs \cup {"10.0.0.5/16"} -> "cidr notation"
                  [] peerID = "" -> "peer-id empty"
                  [] ~HasPcxPrefix(peerID) -> "peer-id prefix"
                  [] OTHER -> ""
        IN CASE refused # "" ->
                    /\ rtRet' = [returned |-> TRUE,
                                 err |-> [RtNil EXCEPT !.stage = "flag",
                                                       !.cause = refused]]
                    /\ rtpc' = "returned"
                    /\ UNCHANGED <<w, ec2Calls, peerings>>
             [] dryRun ->
                    /\ w' = w \o <<Line("dry-run", "", 0, "", peerID, cidr, 0)>>
                              \o r.lines
                              \o (IF r.err = AcceptFailed("nil", "") THEN <<>>
                                  ELSE <<Line("check-failed", "", 0, "", "",
                                              r.err.stage, 0)>>)
                              \o (IF printed
                                  THEN <<Line("aws-variables", "", 0, "", "", "", 0)>>
                                  ELSE <<>>)
                    /\ ec2Calls' = ec2Calls \o r.calls
                    /\ peerings' = r.peerings
                    /\ rtpc' = "start"
                    /\ UNCHANGED rtRet
             [] OTHER ->
                    /\ rtpc' = "start"
                    /\ UNCHANGED <<w, ec2Calls, peerings, rtRet>>
    /\ UNCHANGED <<routeTables, routeTables0, vpcID, cidr, peerID, dryRun,
                   rtOutput, rtIdx, rtPrev>>
    /\ UNCHANGED dbVars
    /\ UNCHANGED runVars
    /\ UNCHANGED <<projectRows, pjArg, pjLast, pjPrev, fetchArg, response, fetched,
                   flags, acceptRet, args, vRet, pjVars, ctx, lateCommits>>

\* the operator runs update-routes again with the same flags
RunAgain ==
    /\ pc = "routes"
    /\ rtpc = "returned"
    /\ ~rtPrev.returned
    /\ rtPrev' = rtRet
    /\ rtRet' = NoRtRet
    /\ routeTables0' = routeTables
    /\ rtOutput' = NoOutput
    /\ rtIdx' = 1
    /\ w' = <<>>
    /\ ec2Calls' = <<>>
    /\ rtpc' = "cmd"
    /\ UNCHANGED <<routeTables, vpcID, cidr, peerID, dryRun>>
    /\ UNCHANGED dbVars
    /\ UNCHANGED runVars
    /\ UNCHANGED extVars

NextCommands ==
    \/ AcceptPeeringCmd
    \/ UpdateRoutesCmd
    \/ DescribeRouteTables
    \/ ReconcileRouteTable
    \/ RunAgain

SpecCommands == InitCommands /\ [][NextCommands]_vars

\* ---------------------------------------------------------------- properties
\* helpers over the calls of the current project
Last(seq) == seq[Len(seq)]
Fetches == SelectSeq(calls, LAMBDA c : c.op = "fetch")
RECURSIVE SumN(_, _)
\* the item count of the first k entries of a sequence of calls
SumN(seq, k) == IF k = 0 THEN 0 ELSE SumN(seq, k - 1) + seq[k].n
Ceil(a, b) == (a + b - 1) \div b
Max(a, b) == IF a >= b THEN a ELSE b

\* the remote reported total T on every fetch and returned consecutive
\* pages of min(pageSize, remaining) items
RemoteServes(T) ==
    \A k \in 1..Len(Fetches) :
        /\ Fetches[k].ok
        /\ Fetches[k].total = T
        /\ Fetches[k].n = Min(pageSize, T - SumN(Fetches, k - 1))

\* the pagination loop of the current project has just exited
LoopExited == pc = "mark"
\* the stale marker of the current project has just returned without error
MarkDone == Len(calls) > 0 /\ Last(calls).op = "mark" /\ Last(calls).ok

\* C1 as stated: against a remote that reports total T and serves consecutive
\* pages of min(P, remaining) items, the loop exits after exactly ceil(T/P)
\* fetches whose item counts sum to T, for every T >= 0.
C1_CeilFetches ==
    \A T \in 0..MaxTotal :
        (LoopExited /\ RemoteServes(T)) =>
            /\ Len(Fetches) = Ceil(T, pageSize)
            /\ SumN(Fetches, Len(Fetches)) = T

\* C1 amended: the loop exits after exactly max(1, ceil(T/P)) fetches (one
\* fetch, of the empty page, when T = 0) whose item counts sum to T.
C1_CeilFetchesAtLeastOne ==
    \A T \in 0..MaxTotal :
        (LoopExited /\ RemoteServes(T)) =>
            /\ Len(Fetches) = Max(1, Ceil(T, pageSize))
            /\ SumN(Fetches, Len(Fetches)) = T

\* C1 witness: a total of two served in two pages of one
C1_Witness ==
    /\ LoopExited
    /\ RemoteServes(2)
    /\ pageSize = 1
    /\ Len(Fetches) = 2

\* C2: the epoch is taken before the first fetch, every record of a page
\* stored during the sync is last touched at or after the epoch when the
\* loop exits, and none of them is newly marked deleted by the sync's marker.
C2_TouchedNeverStale ==
    /\ Len(calls) > 0 => calls[1].op = "now" /\ calls[1].epoch = syncStartTime
    /\ LoopExited => \A id \in touched : table[id].updated_at >= syncStartTime
    /\ MarkDone => \A id \in touched : table[id].is_deleted => table0[id].is_deleted

\* C3: a record that was marked deleted before the sync and appears in a
\* page the sync stored is not marked deleted once the sync has completed.
C3_ReappearanceUndeletes ==
    MarkDone =>
        \A id \in touched :
            (table0[id].exists /\ table0[id].is_deleted) => ~table[id].is_deleted

\* an empty page arrived while fewer items than the total had been seen
EmptyPageBeforeTotal(k) ==
    /\ Fetches[k].ok
    /\ Fetches[k].n = 0
    /\ SumN(Fetches, k - 1) < Fetches[k].total

\* C6: after an empty page received while processedCount < total no further
\* page is fetched, and the run returns an inconsistent-paging error.
C6_EmptyPageAborts ==
    \A k \in 1..Len(Fetches) :
        EmptyPageBeforeTotal(k) =>
            /\ k = Len(Fetches)
            /\ pc \in {"store", "returned"}
            /\ ret.returned => ret.err.stage = "paging"

\* C7: a failed fetch, store or mark-stale call is the last call of the run:
\* the run has returned an error of that stage with all three counts 0,
\* also when earlier projects completed.
C7_FailFast ==
    /\ \A k \in 1..Len(calls) :
        ~calls[k].ok =>
            /\ k = Len(calls)
            /\ pc = "returned"
            /\ ret.returned
            /\ ret.err.stage = calls[k].op
            /\ calls[k].i = idx
    /\ (ret.returned /\ ret.err # RunNil) =>
            /\ ret.projects = 0 /\ ret.clusters = 0 /\ ret.deleted = 0
            /\ Len(calls) > 0 /\ ~Last(calls).ok

\* C7 witness: the second project fails after the first one completed with
\* clusters processed
C7_Witness ==
    /\ ret.returned
    /\ ret.err # RunNil
    /\ idx = 2
    /\ totalProcessedProjectNum = 1
    /\ totalProcessedClusterNum > 0

\* the page number an error names, if it names one
ErrPage(e) == IF "page" \in DOMAIN e THEN e.page ELSE Null

\* C8: when storing page k fails, the records of pages 1..k-1 are in the
\* table, the failed store is the last call (page k+1 is not fetched), and
\* the returned error names page k.
C8_StoreErrorNamesPage ==
    (ret.returned /\ ret.err.stage = "store") =>
        /\ \A id \in touched : table[id].exists /\ table[id].project_id = projectID
        /\ Last(calls).op = "store" /\ Last(calls).page = page
        /\ Len(Fetches) = page
        /\ ErrPage(ret.err) = page

\* C9: the stale marker is called at most once per project, as the last
\* call, with the epoch taken at the top of that project, after fetches and
\* stores that all succeeded, alternate and reached the total; a completed
\* project has had its call.
C9_MarkOncePerProject ==
    /\ \A k \in 1..Len(calls) :
        calls[k].op = "mark" =>
            /\ k = Len(calls)
            /\ k >= 4
            /\ calls[1].op = "now"
            /\ calls[k].epoch = calls[1].epoch
            /\ calls[k].project = calls[1].project
            /\ \A j \in 2..(k - 1) :
                /\ calls[j].ok
                /\ calls[j].op = IF j % 2 = 0 THEN "fetch" ELSE "store"
                /\ calls[j].project = calls[k].project
            /\ calls[k - 1].op = "store"
            /\ SumN(Fetches, Len(Fetches)) >= Last(Fetches).total
    /\ ((pc = "key" /\ idx > 1) \/ (ret.returned /\ ret.err = RunNil /\ Len(projectIDs) > 0))
            => MarkDone
    /\ MarkDone => Last(calls).i = totalProcessedProjectNum

\* C9 witness: the marker called after two pages
C9_Witness ==
    /\ MarkDone
    /\ Len(Fetches) = 2
    /\ Last(calls).epoch < now - 1

\* ---- the store alone
FirstDone == arg.op # "none" /\ last.done /\ ~prev.done
SecondDone == arg.op # "none" /\ last.done /\ prev.done

\* the rows a successful mark newly marked
NewlyMarked(r) ==
    {id \in ClusterIDs : r.after[id].is_deleted /\ ~r.before[id].is_deleted}

\* C4: a successful markStale(K, e) newly marks exactly the rows of K last
\* touched strictly before e and not yet deleted, leaves a row of K touched
\* at or after e unmarked, and returns the number of rows newly marked.
C4_StaleMarking ==
    (arg.op = "mark" /\ last.done /\ last.err = Nil) =>
        /\ \A id \in ClusterIDs :
            LET b == last.before[id] IN
            /\ id \in NewlyMarked(last) <=>
                    /\ b.exists
                    /\ b.project_id = arg.projectID
                    /\ b.updated_at < arg.syncedAt
                    /\ ~b.is_deleted
            /\ (b.exists /\ b.project_id = arg.projectID
                    /\ b.updated_at >= arg.syncedAt) => last.after[id] = b
        /\ last.rowsAffected = Cardinality(NewlyMarked(last))

\* C4 witness: of two live rows of the project, the one touched before the
\* epoch is marked and the one touched at the epoch is not
C4_Witness ==
    /\ arg.op = "mark" /\ FirstDone /\ last.err = Nil
    /\ last.rowsAffected = 1
    /\ \E id \in ClusterIDs :
        /\ last.before[id].exists
        /\ last.before[id].project_id = arg.projectID
        /\ ~last.before[id].is_deleted
        /\ last.before[id].updated_at = arg.syncedAt
        /\ ~last.after[id].is_deleted

\* C5: a store that fails on an item has ended its transaction by a
\* rollback, returns an error naming that item, and leaves the table as it
\* found it.
C5_BatchRolledBack ==
    (arg.op = "store" /\ last.done /\ last.err.kind \in {"parse", "upsert"}) =>
        /\ last.tx \in {"rolledback", "aborted"}
        /\ last.err.item \in {arg.clusters[i].ID : i \in 1..Len(arg.clusters)}
        /\ last.after = last.before

C11_IdempotentMark ==
    (arg.op = "mark" /\ SecondDone /\ prev.err = Nil /\ last.err = Nil) =>
        /\ NewlyMarked(last) = {}
        /\ last.rowsAffected = 0
        /\ last.after = prev.after

\* C11 witness: the first call marked a row whose new updated_at is still
\* before the epoch, the second ran in a later second
C11_Witness ==
    /\ arg.op = "mark" /\ SecondDone /\ prev.err = Nil /\ last.err = Nil
    /\ \E id \in NewlyMarked(prev) : prev.after[id].updated_at < arg.syncedAt
    /\ CurrentTimestamp(last.at) # CurrentTimestamp(prev.at)

\* C27: a successful markStale(K, e) leaves as they were the rows of other
\* projects, the rows of K last touched at or after e, and the rows already
\* marked deleted, deleted_at included.
C27_MarkFrame ==
    (arg.op = "mark" /\ last.done /\ last.err = Nil) =>
        \A id \in ClusterIDs :
            LET b == last.before[id] IN
            (\/ ~b.exists
             \/ b.project_id # arg.projectID
             \/ b.updated_at >= arg.syncedAt
             \/ b.is_deleted) => last.after[id] = b

\* C27 witness: a mark that marked a row of K and found an older row of
\* another project, live, or an older row of K already deleted
C27_Witness ==
    /\ arg.op = "mark" /\ FirstDone /\ last.err = Nil
    /\ last.rowsAffected = 1
    /\ \E id \in ClusterIDs :
        LET b == last.before[id] IN
        /\ b.exists
        /\ b.updated_at < arg.syncedAt
        /\ (b.project_id # arg.projectID /\ ~b.is_deleted)
            \/ (b.project_id = arg.projectID /\ b.is_deleted)

\* the first store found the row of item c under another project
StoredUnderOtherProject(r, c) ==
    r.before[c.ID].exists /\ r.before[c.ID].project_id # c.ProjectID

\* C18: a successful store of an item under project K leaves a row stored
\* with the same id under another project as it was (the item becomes a
\* second record, keyed on project and id).
C18_KeyedOnProjectAndID ==
    (arg.op = "store" /\ FirstDone /\ last.err = Nil) =>
        \A i \in 1..Len(arg.clusters) :
            StoredUnderOtherProject(last, arg.clusters[i]) =>
                last.after[arg.clusters[i].ID] = last.before[arg.clusters[i].ID]

\* ---- the orchestrator, continued
\* C19: the loop of a project goes on while the items seen are fewer than
\* the total the first successful fetch reported, and exits once they reach
\* it, whatever total a later page reports.
C19_ExitAtFirstTotal ==
    (Len(Fetches) >= 1 /\ Fetches[1].ok) =>
        /\ LoopExited => SumN(Fetches, Len(Fetches)) >= Fetches[1].total
        /\ pc = "fetch" => SumN(Fetches, Len(Fetches)) < Fetches[1].total

\* C20: no step removes a stored row, and a row's is_deleted goes from
\* FALSE to TRUE only in a step of the stale marker.
C20_SoftDeleteOnly ==
    [][\A id \in ClusterIDs :
            /\ table[id].exists => table'[id].exists
            /\ (~table[id].is_deleted /\ table'[id].is_deleted) =>
                    (pc = "mark" \/ arg.op = "mark")]_vars

\* C20 witness: the marker of a sync newly marked a row, which is still stored
C20_Witness ==
    /\ MarkDone
    /\ \E id \in ClusterIDs :
        table[id].exists /\ table[id].is_deleted /\ ~table0[id].is_deleted

\* C22: the calls on record are those of one project, the one at the
\* loop's position in the order given, its epoch taken first and its first
\* fetch that of page 1; when the next project is about to start, they are
\* the calls of the project before it, ended by its successful mark, and
\* every project before the position is counted as processed.
C22_SequentialKeys ==
    LET i == IF pc = "key" /\ idx > 1 THEN idx - 1 ELSE idx IN
    /\ \A k \in 1..Len(calls) :
        /\ calls[k].i = i
        /\ calls[k].project = projectIDs[i]
        /\ calls[k].op = "now" <=> k = 1
    /\ Len(Fetches) > 0 => Fetches[1].page = 1
    /\ (pc = "key" /\ idx > 1) => MarkDone
    /\ pc \in {"key", "fetch", "store", "mark"} => totalProcessedProjectNum = idx - 1

\* C22 witness: the second of two different projects is being fetched
C22_Witness ==
    /\ idx = 2
    /\ projectIDs[1] # projectIDs[2]
    /\ Len(Fetches) >= 1
    /\ totalProcessedClusterNum > 0

\* C24: the step in which a run fails leaves the committed table as it
\* was, with the rows and marks of the projects completed before and the
\* pages of the failing project stored before; the transaction of the
\* failing call, if it began one, is not committed.
C24_CommittedPersists ==
    [][(ret'.returned /\ ret'.err # RunNil) =>
            /\ table' = table
            /\ ret'.err.stage \in {"store", "mark"} =>
                    tx' # "committed"]_vars

\* C24 witness: the second project fails after pages of its own that
\* changed the table were stored
C24_Witness ==
    /\ ret.returned
    /\ ret.err.stage \in {"store", "mark"}
    /\ idx = 2
    /\ \E id \in touched : table[id] # table0[id]

\* C30: after the epoch the calls of a project alternate fetch, store: the
\* n-th fetch asks for page n, the store that follows it gets the page just
\* fetched, and only a mark can end the sequence.
C30_FetchStoreAlternate ==
    \A k \in 2..Len(calls) :
        \/ /\ k % 2 = 0
           /\ calls[k].op = "fetch"
           /\ calls[k].page = k \div 2
           /\ calls[k].pageSize = pageSize
        \/ /\ k % 2 = 1
           /\ calls[k].op = "store"
           /\ calls[k - 1].ok
           /\ calls[k].page = calls[k - 1].page
           /\ calls[k].n = calls[k - 1].n
        \/ /\ k % 2 = 0
           /\ k = Len(calls)
           /\ calls[k].op = "mark"
           /\ calls[k - 1].ok

\* C30 witness: two pages fetched and stored
C30_Witness ==
    /\ Len(calls) >= 5
    /\ calls[5].op = "store" /\ calls[5].ok
    /\ calls[5].page = 2 /\ calls[5].n > 0

\* ---- both variants
\* C16: a run that returns without error returns the number of projects
\* given, the item count of every page fetched, and the sum of the counts
\* the stale marker returned; the "nodes" variant returns as third value the
\* sum of the node counts StoreClusterNodes returned.
C16_Summary ==
    (ret.returned /\ ret.err = RunNil) =>
        /\ ret.projects = Len(projectIDs)
        /\ ret.clusters = sums.fetched
        /\ ret.deleted = IF variant = "nodes" THEN sums.nodes ELSE sums.marked

\* C16 witness: a run over two projects returned three sums that differ
C16_Witness ==
    /\ variant = "marker"
    /\ ret.returned /\ ret.err = RunNil
    /\ ret.projects = 2
    /\ ret.clusters # ret.deleted
    /\ ret.clusters > 0 /\ ret.deleted > 0

\* the same in the "nodes" variant, the last project in two pages
C16_WitnessNodes ==
    /\ variant = "nodes"
    /\ ret.returned /\ ret.err = RunNil
    /\ ret.projects = 2
    /\ ret.clusters # ret.deleted
    /\ ret.clusters > 0 /\ ret.deleted > 0
    /\ Len(Fetches) = 2

\* C17: when StoreClusterNodes fails on the first page of a project, the
\* rows of that page's clusters are as they were before the page was
\* stored, and no transaction of the page stays committed.
C17_NodesShareFate ==
    (ret.returned /\ ret.err.stage = "nodes" /\ page = 1) =>
        /\ \A id \in touched : table[id] = table0[id]
        /\ tx # "committed"

\* ---- UpdateRoutes
\* the routes of a table for a destination
CidrRoutes(routes, dest) ==
    {j \in 1..Len(routes) : routes[j].DestinationCidrBlock = dest}
\* the three classes of a table
Class(routes, dest, want) ==
    IF CidrRoutes(routes, dest) = {} THEN "MISSING"
    ELSE IF \E j \in CidrRoutes(routes, dest) :
                \/ routes[j].VpcPeeringConnectionId = NilString
                \/ routes[j].VpcPeeringConnectionId # want
    THEN "MISMATCHED"
    ELSE "MATCHING"
ActionOfClass(cls) ==
    CASE cls = "MISSING" -> "create" [] cls = "MISMATCHED" -> "replace"
      [] OTHER -> "skip"
ClassOfLine(kind) ==
    CASE kind \in {"would-add", "added"} -> "MISSING"
      [] kind \in {"would-update", "updated"} -> "MISMATCHED"
      [] kind = "skipping" -> "MATCHING"
      [] OTHER -> "none"
LinesOf(id) == SelectSeq(w, LAMBDA l : l.table = id)
MutationsOf(id) == SelectSeq(ec2Calls, LAMBDA c : c.table = id)
Listed == rtOutput.RouteTables
RanOK == rtRet.returned /\ rtRet.err = RtNil
\* the previous next-hop a line of a mismatched table shows
PreviousHop(routes, dest) ==
    LET j == CHOOSE j \in CidrRoutes(routes, dest) : TRUE
    IN IF routes[j].VpcPeeringConnectionId = NilString THEN "unset"
       ELSE routes[j].VpcPeeringConnectionId

C13_DryRunNeverMutates ==
    dryRun =>
        /\ \A j \in 1..Len(ec2Calls) : ec2Calls[j].op = "describe"
        /\ routeTables = routeTables0
        /\ RanOK =>
            \A k \in 1..Len(Listed) :
                LET id == Listed[k].RouteTableId IN
                /\ Len(LinesOf(id)) = 1
                /\ LinesOf(id)[1].kind \in {"would-add", "would-update", "skipping"}
                /\ ClassOfLine(LinesOf(id)[1].kind)
                        = Class(routeTables0[id].routes, cidr, peerID)
                /\ LinesOf(id)[1].to = peerID

\* C13 witness: a dry run over a table without the route and one with
\* another next-hop
C13_Witness ==
    /\ dryRun /\ RanOK
    /\ \E i, j \in 1..Len(w) :
        w[i].kind = "would-add" /\ w[j].kind = "would-update"

C15_MutationFailureAborts ==
    \A j \in 1..Len(ec2Calls) :
        (ec2Calls[j].op \in {"create", "replace"} /\ ~ec2Calls[j].ok) =>
            /\ j = Len(ec2Calls)
            /\ rtpc = "returned" /\ rtRet.returned
            /\ rtRet.err.stage = ec2Calls[j].op
            /\ rtRet.err.table = ec2Calls[j].table
            /\ rtRet.err.cause = "ec2"
            /\ Listed[rtIdx].RouteTableId = ec2Calls[j].table
            /\ \A k \in 1..Len(Listed) :
                LET id == Listed[k].RouteTableId IN
                /\ k < rtIdx =>
                        /\ CidrRoutes(routeTables[id].routes, cidr) # {}
                        /\ \A i \in CidrRoutes(routeTables[id].routes, cidr) :
                            routeTables[id].routes[i].VpcPeeringConnectionId = peerID
                /\ k >= rtIdx => routeTables[id] = routeTables0[id]

\* C15 witness: the mutation of the second table fails after the first
\* table was changed
C15_Witness ==
    /\ rtRet.returned
    /\ rtRet.err.stage \in {"create", "replace"}
    /\ rtIdx = 2
    /\ routeTables # routeTables0

\* C26: storing an empty batch is a no-op: StoreClusters and StoreProjects
\* return no error for an empty page, open no transaction and leave every
\* stored record as it was, whatever the database would have answered
C26_EmptyBatchNoOp ==
    /\ (last.done /\ arg.op = "store" /\ Len(arg.clusters) = 0) =>
            /\ last.err = Nil
            /\ last.tx = "none"
            /\ last.after = last.before
            /\ table = last.before
    /\ (pjLast.done /\ Len(pjArg) = 0) =>
            /\ pjLast.err = Nil
            /\ pjLast.tx = "none"
            /\ pjLast.after = pjLast.before
            /\ projectRows = pjLast.before

\* an empty batch given to StoreProjects after a batch that stored a row,
\* with a database that would refuse to begin a transaction
C26_Witness ==
    /\ pjLast.done
    /\ Len(pjArg) = 0
    /\ pjLast.fault.at = "begin"
    /\ pjPrev.done
    /\ pjPrev.err = Nil
    /\ \E id \in Projects : projectRows[id].exists /\ ~pjPrev.before[id].exists

\* the same of StoreClusters
C26_WitnessClusters ==
    /\ last.done
    /\ arg.op = "store"
    /\ Len(arg.clusters) = 0
    /\ last.fault.at = "begin"
    /\ prev.done
    /\ prev.err = Nil
    /\ \E id \in ClusterIDs : table[id].exists /\ ~prev.before[id].exists

\* the fields of a cluster's row are those of the cluster stored last
ClusterOverwritten(row, c) ==
    /\ row.exists
    /\ row.project_id = c.ProjectID
    /\ row.name = c.Name
    /\ ParseIntOK(c.CreateTimestamp)
    /\ row.create_timestamp = ParseInt(c.CreateTimestamp)

\* the fields of a project's row are those of the project stored last
ProjectOverwritten(row, p) ==
    /\ row.exists
    /\ row.name = p.Name
    /\ Count(0, row.cluster_count) = p.ClusterCount
    /\ ParseIntOK(p.CreateTimestamp)
    /\ row.create_timestamp = ParseInt(p.CreateTimestamp)

\* the cluster half of C25: after two successful StoreClusters calls every
\* row of the second batch that the first left carries the second's values
C25_ClustersOverwritten ==
    (prev.done /\ prev.err = Nil /\ last.done /\ last.err = Nil) =>
        \A i \in 1..Len(arg.clusters) :
            last.before[arg.clusters[i].ID].exists =>
                ClusterOverwritten(table[arg.clusters[i].ID], arg.clusters[i])

\* C25: remote is authoritative: after store([x]) followed by store([x'])
\* with the same key, both successful, every mutable descriptive field of
\* the persisted record equals the value in x', for clusters and for projects
C25_RemoteAuthoritative ==
    /\ C25_ClustersOverwritten
    /\ (pjPrev.done /\ pjPrev.err = Nil /\ pjLast.done /\ pjLast.err = Nil) =>
            \A i \in 1..Len(pjArg) :
                pjLast.before[pjArg[i].ID].exists =>
                    ProjectOverwritten(projectRows[pjArg[i].ID], pjArg[i])

\* the errors of a fetch that are neither "unauthorized" nor "rate limit":
\* the answer is not what the protocol promises
ProtocolError(err) == err.kind \in {"decode", "decode error", "api"}

\* C21: a fetch that got an answer returns an unauthorized error on status
\* 401, a rate-limited error on 429, a protocol error on every other status
\* that is not 200, whether or not the body decodes, and on a 200 whose body
\* does not decode; whenever it returns an error (the request not built or
\* not answered included) it returns no items and total 0
C21_FetchErrorClasses ==
    fetched.done =>
        LET r == fetched.ret
            st == response.StatusCode
            answered == ~response.err /\ fetchArg.endpoint # ":bad"
        IN /\ (answered /\ st = 401) => r.err.kind = "unauthorized"
           /\ (answered /\ st = 429) => r.err.kind = "rate limit"
           /\ (answered /\ st \notin {200, 401, 429}) => ProtocolError(r.err)
           /\ (answered /\ st = 200 /\ response.Body.kind \in {"garbage", "empty"})
                    => ProtocolError(r.err)
           /\ (answered /\ st = 200 /\ response.Body.kind \in {"list", "error"})
                    => r.err.kind = "nil"
           /\ ~answered => r.err.kind \notin {"nil", "unauthorized", "rate limit"}
           /\ r.err.kind # "nil" => (r.Items = <<>> /\ r.Total = 0)

\* FetchClusters answered 500 with a body that decodes and lists clusters
C21_Witness ==
    /\ fetched.done
    /\ fetched.by = "clusters"
    /\ response.StatusCode = 500
    /\ response.Body.kind = "list"
    /\ Len(response.Body.items) > 0
    /\ response.Body.total > 0
    /\ fetched.ret.err.kind = "api"
    /\ fetched.ret.page = 1
    /\ fetchArg.page <= 0

\* the calls of AcceptVpcPeeringConnection the command issued
AcceptCalls == SelectSeq(ec2Calls, LAMBDA c : c.op = "accept")

\* C28: accept-peering calls AcceptVpcPeeringConnection only when the state
\* it read is pending-acceptance and check-only is false; having read any
\* other state, or with check-only set, it calls nothing, leaves the
\* connections as they were and returns nil
C28_AcceptOnlyPending ==
    acceptRet.returned =>
        /\ Len(AcceptCalls) > 0 =>
                /\ acceptRet.state = "pending-acceptance"
                /\ acceptRet.before[flags.peeringID] = "pending-acceptance"
                /\ ~flags.checkOnly
                /\ ~flags.dryRun
                /\ Len(AcceptCalls) = 1
        /\ (acceptRet.state # "" /\ (acceptRet.state # "pending-acceptance"
                                        \/ flags.checkOnly)) =>
                /\ Len(ec2Calls) = 0
                /\ peerings = acceptRet.before
                /\ acceptRet.err = AcceptFailed("nil", "")
        /\ peerings # acceptRet.before =>
                (Len(AcceptCalls) = 1 /\ AcceptCalls[1].ok)

\* check-only on a connection that is pending acceptance
C28_Witness ==
    /\ acceptRet.returned
    /\ flags.checkOnly
    /\ acceptRet.state = "pending-acceptance"
    /\ peerings[flags.peeringID] = "pending-acceptance"
    /\ acceptRet.err = AcceptFailed("nil", "")
    /\ Len(w) = 1
    /\ w[1].kind = "check"

\* C29: validateFetchClustersArgs returns nil exactly when the API key and
\* the API secret are not empty, 1 <= PageSize <= 100, exactly one of All and
\* "a project ID is given" holds, 1 <= DBPort <= 65535, HTTPTimeout > 0 and
\* JobTimeout > 0; having passed the key and secret checks it replaces an
\* empty APIEndpointBase by the default, and changes nothing else
C29_ValidateArgs ==
    vRet.returned =>
        LET g == vRet.given IN
        /\ vRet.err = "" <=>
                /\ g.APIKey # ""
                /\ g.APISecret # ""
                /\ 1 <= g.PageSize /\ g.PageSize <= 100
                /\ g.All # (Len(g.ProjectIDs) >= 1)
                /\ 1 <= g.DBPort /\ g.DBPort <= 65535
                /\ g.HTTPTimeout > 0
                /\ g.JobTimeout > 0
        /\ (vRet.err = "" /\ g.APIEndpointBase = "") =>
                args.APIEndpointBase = "https://api.tidbcloud.com/api/v1beta"
        /\ g.APIEndpointBase # "" => args = g
        /\ [args EXCEPT !.APIEndpointBase = ""] = [g EXCEPT !.APIEndpointBase = ""]

\* accepted at the upper limits, with --all and no endpoint base
C29_Witness ==
    /\ vRet.returned
    /\ vRet.err = ""
    /\ vRet.given.APIEndpointBase = ""
    /\ vRet.given.PageSize = 100
    /\ vRet.given.DBPort = 65535
    /\ vRet.given.All
    /\ args.APIEndpointBase # ""

\* C23: cancellation bounds the whole run: once ctx is done every later
\* fetch, every later StoreClusters of a page with clusters and every later
\* MarkStaleClustersAsDeleted fails, no transaction is committed, and the run
\* returns an error
C23_CancellationBounds ==
    [][/\ (ctx = "done" /\ calls' # calls /\ Len(calls') > 0
                /\ Last(calls').op \in {"fetch", "mark"}) => ~Last(calls').ok
       /\ (ctx = "done" /\ calls' # calls /\ Len(calls') > 0
                /\ Last(calls').op = "store" /\ Last(calls').n > 0)
                    => ~Last(calls').ok
       /\ (ctx = "done" /\ tx' = "committed") => (table' = table /\ tx = "committed")
       /\ lateCommits' = 0
       /\ (ctx' = "done" /\ ~ret.returned /\ ret'.returned) => ret'.err # RunNil]_vars

\* C31: a store call that has returned has closed the transaction it began:
\* the transaction is committed or rolled back (or was never begun), on
\* every return path, the parse failure of an item's create_timestamp
\* included.
C31_TransactionsClosed ==
    last.done => last.tx # "open"

\* C32: FetchAndStoreProjects goes on to the next page only after a page
\* that held projects: once the remote has answered a page past its last
\* with no project, the call has returned.
C32_StopsAtEmptyPage ==
    (pjpc = "fetch" /\ Len(pjFetches) > 0) => Last(pjFetches).n > 0

\* the first fetch of the current project returned no cluster and total 0
EmptyRemoteKey ==
    /\ Len(calls) >= 2
    /\ calls[2].op = "fetch" /\ calls[2].ok
    /\ calls[2].n = 0 /\ calls[2].total = 0

\* C33: the sync of a project of which the remote reports total 0 and an
\* empty first page fetches once, stores the empty page, and then marks with
\* the time the sync began; a mark that succeeds marks as deleted exactly the
\* rows of that project that were in the table, not deleted, when the sync
\* began, and counts them.
C33_EmptyRemoteMarksAll ==
    EmptyRemoteKey =>
        /\ Len(calls) <= 4
        /\ \A i \in 3..Len(calls) : calls[i].op = (IF i = 3 THEN "store" ELSE "mark")
        /\ Len(calls) = 4 =>
                /\ calls[4].project = calls[1].project
                /\ calls[4].epoch = calls[1].epoch
        /\ (Len(calls) = 4 /\ calls[4].ok) =>
            LET K == calls[1].project
                stored == {id \in ClusterIDs : /\ table0[id].exists
                                               /\ table0[id].project_id = K
                                               /\ ~table0[id].is_deleted}
            IN /\ \A id \in stored : table[id].exists /\ table[id].is_deleted
               /\ \A id \in ClusterIDs \ stored : table[id] = table0[id]
               /\ calls[4].count = Cardinality(stored)

\* C33 witness: such a sync found a live row of its project and a row of
\* another, and marked the first
C33_Witness ==
    /\ EmptyRemoteKey
    /\ Len(calls) = 4 /\ calls[4].ok /\ calls[4].count = 1
    /\ \E id \in ClusterIDs :
        /\ table0[id].exists /\ table0[id].project_id # calls[1].project
        /\ ~table[id].is_deleted

\* C35: a MarkStaleClustersAsDeleted that the database fails at Begin, at
\* the UPDATE, at RowsAffected or at Commit returns count 0 and an error of
\* that stage, has rolled its transaction back if it began one, and leaves
\* every row's deleted mark as it was.
C35_MarkFailureCarriesCause ==
    (arg.op = "mark" /\ last.done /\ last.fault.at # "none") =>
        /\ last.rowsAffected = 0
        /\ last.err # Nil
        /\ last.err.kind = last.fault.at
        /\ last.fault.at # "begin" => last.tx = "rolledback"
        /\ \A id \in ClusterIDs :
            last.after[id].is_deleted = last.before[id].is_deleted

\* update-routes ran before, not simulated, and returned without error
RanBeforeOK == pc = "routes" /\ ~dryRun /\ rtPrev.returned /\ rtPrev.err = RtNil

\* C34: a run issues at most one mutation per table; after a run that was
\* not simulated and returned without error every route table of the VPC
\* has a route for the destination whose next-hop is the desired peering
\* connection; and the run repeated after it with the same arguments issues
\* no CreateRoute and no ReplaceRoute and reports every table it passes as
\* already having the route.
C34_ConvergesIdempotent ==
    /\ \A id \in RouteTableIDs : Len(MutationsOf(id)) <= 1
    /\ (pc = "routes" /\ ~dryRun /\ RanOK) =>
        \A id \in RouteTableIDs :
            routeTables[id].vpc = vpcID =>
                \E j \in 1..Len(routeTables[id].routes) :
                    /\ routeTables[id].routes[j].DestinationCidrBlock = Canonical(cidr)
                    /\ routeTables[id].routes[j].VpcPeeringConnectionId = peerID
    /\ RanBeforeOK =>
        /\ \A j \in 1..Len(ec2Calls) : ec2Calls[j].op \notin {"create", "replace"}
        /\ \A k \in 1..Len(Listed) :
            k < rtIdx => /\ Len(LinesOf(Listed[k].RouteTableId)) = 1
                         /\ LinesOf(Listed[k].RouteTableId)[1].kind = "skipping"

\* the same when the destination is given in canonical form
CanonicalConvergesIdempotent ==
    cidr = Canonical(cidr) => C34_ConvergesIdempotent

\* C36: a dry run leaves the peering connections alone. update-routes with
\* --dry-run issues no AcceptVpcPeeringConnection call and writes no line of
\* an acceptance, whatever state the connection is in; accept-peering with
\* --dry-run returns having read no connection and called nothing; with
\* --check-only too it returns an error, having called nothing.
C36_DryRunNeverAccepts ==
    [][/\ (pc = "routes" /\ dryRun) =>
            /\ peerings' = peerings
            /\ AcceptCalls' = <<>>
            /\ \A i \in 1..Len(w') : w'[i].kind \notin {"accepting", "success"}
       /\ (pc = "accept" /\ flags.dryRun /\ acceptRet'.returned) =>
            /\ peerings' = peerings
            /\ ec2Calls' = <<>>
            /\ acceptRet'.state = ""
            /\ \A i \in 1..Len(w') : w'[i].kind = "aws-variables"
            /\ flags.checkOnly =>
                    (acceptRet'.err # AcceptFailed("nil", "") /\ w' = <<>>)
            /\ (~flags.checkOnly /\ HasPcxPrefix(flags.peeringID)) =>
                    acceptRet'.err = AcceptFailed("nil", "")]_vars

\* C36 witness: a dry run of update-routes has checked a connection that is
\* pending acceptance, and gone through the route tables
C36_Witness ==
    /\ pc = "routes" /\ dryRun /\ RanOK
    /\ peerings[peerID] = "pending-acceptance"
    /\ \E i \in 1..Len(w) : w[i].kind = "check"
    /\ \E i \in 1..Len(w) : w[i].kind = "would-add"

====
